---- MODULE Spec2Model ----
(***************************************************************************)
(* Model of the Yoto F1 card application: the Configstore-backed identity  *)
(* record (src/unnamed/part_009), the manual refresh route                 *)
(* (src/src/app/api/refresh-myo-playlist/route.js), the webhook refresh    *)
(* route (src/unnamed/part_002), the send-to-yoto route                    *)
(* (src/src/app/api/send-to-yoto/route.js), logout                         *)
(* (src/src/app/api/auth/logout/route.js), the device fan-out, the        *)
(* playlist content and the narration builder (src/unnamed/part_003) and   *)
(* the Cloudflare worker (src/src/app/api/send-to-yoto/route.js:215-558).  *)
(*                                                                         *)
(* One step of the model is what a handler runs between two awaits: the    *)
(* awaited call returns with one of its outcomes and the synchronous code  *)
(* up to the next await (or the response) runs.                            *)
(***************************************************************************)
EXTENDS Naturals, Sequences, FiniteSets, TLC

VARIABLES
    config,     \* the Configstore: tokens, f1CardId, f1MyoCardId, f1PlaylistTitle, f1DataHash
    cards,      \* number of cards the content backend has created so far
    liveCard,   \* history: a card creation has returned a cardId since the last logout
    pc,         \* per handler slot: the await the handler is suspended at
    req,        \* per handler slot: the handler's local variables, its response and its log
    F1_DATA     \* the worker's KV namespace: the value stored under each key

vars == <<config, cards, liveCard, pc, req, F1_DATA>>

-----------------------------------------------------------------------------
(* Bounds *)

\* Cards the backend creates at most in one run.
MaxCards == 2
\* Devices a device listing holds at most.
MaxDevices == 3

-----------------------------------------------------------------------------
(* Values *)

\* What config.get returns for a key that is not set, and any other JS undefined/null.
Undefined == "undefined"

\* JS truthiness of a string-or-undefined value.
Truthy(v) == v # Undefined /\ v # ""

Procs == {"p1", "p2"}
\* The sequential specification runs every request in one handler slot.
SeqProcs == {"p1"}

RaceNames == {"Monaco GP", "Monza GP"}
DataHashes == {"h1", "h2"}
RequestTitles == {Undefined, "My F1"}
WebhookSecrets == {Undefined, "s3cret", "wrong"}

\* process.env as the process serving a request sees it. The store is a file that
\* outlives the process, so each request draws its environment anew.
Envs ==
    [WEBHOOK_SECRET : {Undefined, "s3cret"},
     CLOUDFLARE_WORKER_URL : {Undefined, "https://worker"}]

\* The key of the worker's cache entry, and the namespace with nothing stored.
CACHE_KEY == "f1_playlist_data"
EmptyNamespace == [key \in {CACHE_KEY} |-> Undefined]

NoTokens == [accessToken |-> Undefined, refreshToken |-> Undefined]

EmptyStore ==
    [tokens |-> NoTokens, f1CardId |-> Undefined, f1MyoCardId |-> Undefined,
     f1PlaylistTitle |-> Undefined, f1DataHash |-> Undefined]

\* The id the backend gives to the n-th card it creates.
CardIdOf(n) == "card" \o ToString(n)

-----------------------------------------------------------------------------
(* authUtils: the store *)

\* A store handle: the Configstore contents and the log of the writes made through
\* it by the synchronous block that holds it.
Open(cfg) == [data |-> cfg, log |-> <<>>]

ConfigSet(s, key, value) ==
    [data |-> [s.data EXCEPT ![key] = value], log |-> Append(s.log, "write:" \o key)]

ConfigDelete(s, key) ==
    [data |-> [s.data EXCEPT ![key] = IF key = "tokens" THEN NoTokens ELSE Undefined],
     log |-> Append(s.log, "write:" \o key)]

storeTokens(s, accessToken, refreshToken) ==
    ConfigSet(s, "tokens", [accessToken |-> accessToken, refreshToken |-> refreshToken])

getStoredTokens(cfg) == cfg.tokens

getAccessToken(cfg) ==
    IF ~Truthy(cfg.tokens.accessToken) THEN Undefined ELSE cfg.tokens.accessToken

clearTokens(s) == ConfigDelete(s, "tokens")

getStoredCardId(cfg) == cfg.f1CardId

\* Mutant: null is ignored instead of deleting the key.
storeCardIdKeep(s, cardId) ==
    IF cardId = Undefined THEN s ELSE ConfigSet(s, "f1CardId", cardId)

storeCardId(s, cardId) ==
    IF cardId = Undefined THEN ConfigDelete(s, "f1CardId") ELSE ConfigSet(s, "f1CardId", cardId)

storeMyoCardId(s, cardId) ==
    IF cardId = Undefined THEN ConfigDelete(s, "f1MyoCardId")
    ELSE ConfigSet(s, "f1MyoCardId", cardId)

getStoredPlaylistTitle(cfg) == cfg.f1PlaylistTitle

storePlaylistTitle(s, title) ==
    IF title = Undefined THEN ConfigDelete(s, "f1PlaylistTitle")
    ELSE ConfigSet(s, "f1PlaylistTitle", title)

getStoredDataHash(cfg) == cfg.f1DataHash

storeDataHash(s, hash) ==
    IF hash = Undefined THEN ConfigDelete(s, "f1DataHash") ELSE ConfigSet(s, "f1DataHash", hash)

-----------------------------------------------------------------------------
(* authUtils: errors *)

AuthError == [status |-> 401, message |-> "Unauthorized"]
BackendError == [status |-> 500, message |-> "backend failure"]
TypeError == [status |-> 0, message |-> "Cannot read properties of undefined"]

AuthMessages == {"Unauthorized", "401"}

isAuthError(error) == error.status = 401 \/ error.message \in AuthMessages

-----------------------------------------------------------------------------
(* yotoService: device fan-out *)

\* The device listing of an account with n registered devices.
DeviceList(n) == [i \in 1..n |-> [id |-> "dev" \o ToString(i), name |-> "player"]]

\* deployToDevice settles fulfilled when the backend accepts the deploy for that
\* device and rejected when it answers non-OK; accepted is the set of device ids
\* the backend accepts.
deployToDevice(deviceId, accepted) ==
    IF deviceId \in accepted THEN "fulfilled" ELSE "rejected"

\* The deploy calls devices.map issues, in order.
DeployCalls(devices) == [i \in 1..Len(devices) |-> devices[i].id]

\* A deployment summary; `calls` lists the deployToDevice calls that were issued and
\* `error` marks the summary send-to-yoto builds in its catch.
ZeroSummary(isError) ==
    [isNull |-> FALSE, success |-> 0, failed |-> 0, total |-> 0, error |-> isError,
     calls |-> <<>>]

\* let deploymentResult = null
NullDeployment ==
    [isNull |-> TRUE, success |-> 0, failed |-> 0, total |-> 0, error |-> FALSE,
     calls |-> <<>>]

\* Mutant: Promise.all instead of Promise.allSettled, one rejection rejects the whole
\* fan-out and the caller is left without a summary.
deployFailFast(devices, accepted) ==
    IF Len(devices) = 0
    THEN ZeroSummary(FALSE)
    ELSE IF \E i \in 1..Len(devices) : deployToDevice(devices[i].id, accepted) = "rejected"
    THEN NullDeployment
    ELSE [isNull |-> FALSE, success |-> Len(devices), failed |-> 0,
          total |-> Len(devices), error |-> FALSE, calls |-> DeployCalls(devices)]

\* Mutant: an empty listing is treated as an error, the caller is left without a
\* summary.
deployRequireDevices(devices, accepted) ==
    IF Len(devices) = 0
    THEN NullDeployment
    ELSE [isNull |-> FALSE,
          success |-> Cardinality({i \in 1..Len(devices) : devices[i].id \in accepted}),
          failed |-> Cardinality({i \in 1..Len(devices) : devices[i].id \notin accepted}),
          total |-> Len(devices), error |-> FALSE, calls |-> DeployCalls(devices)]

\* deployToAllDevices once getDevices has returned `devices`: Promise.allSettled over
\* one deployToDevice per device, then the two filters.
deployToAllDevices(devices, accepted) ==
    IF Len(devices) = 0
    THEN ZeroSummary(FALSE)
    ELSE LET results == [i \in 1..Len(devices) |-> deployToDevice(devices[i].id, accepted)]
             IsFulfilled(r) == r = "fulfilled"
             IsRejected(r) == r = "rejected"
         IN  [isNull |-> FALSE,
              success |-> Len(SelectSeq(results, IsFulfilled)),
              failed |-> Len(SelectSeq(results, IsRejected)),
              total |-> Len(devices),
              error |-> FALSE,
              calls |-> DeployCalls(devices)]

\* What the catch around deployToAllDevices leaves in deploymentResult in the refresh
\* routes: the error is logged and the variable keeps its null.
RefreshDeployCatch == NullDeployment

\* Mutant: the catch of send-to-yoto drops the error from the summary it builds.
SendDeployCatchSilent == ZeroSummary(FALSE)

\* What the catch around deployToAllDevices builds in send-to-yoto.
SendDeployCatch == ZeroSummary(TRUE)

-----------------------------------------------------------------------------
(* yotoService: create or update *)

NoResult == [cardId |-> Undefined, isUpdate |-> FALSE, status |-> Undefined]

\* The ways createOrUpdateTTSPlaylist can end for a given prior cardId.
ReconcileOutcomes(cardId) ==
    IF Truthy(cardId)
    THEN {"updated", "fallback", "failed", "authError", "error"}
    ELSE {"created", "failed", "authError", "error"}

ReconcileThrows(outcome) == outcome \in {"authError", "error"}

ReconcileError(outcome) == IF outcome = "authError" THEN AuthError ELSE BackendError

ReconcileCreates(outcome) == outcome \in {"created", "fallback"}

\* The result createOrUpdateTTSPlaylist returns when it does not throw; n is the
\* number of cards the backend has created before this call.
createOrUpdateTTSPlaylist(cardId, outcome, n) ==
    CASE outcome = "updated" ->
            [cardId |-> cardId, isUpdate |-> TRUE, status |-> "completed"]
      [] outcome \in {"created", "fallback"} ->
            [cardId |-> CardIdOf(n + 1), isUpdate |-> FALSE, status |-> "completed"]
      [] OTHER ->
            [cardId |-> cardId, isUpdate |-> Truthy(cardId), status |-> "failed"]

-----------------------------------------------------------------------------
(* Requests *)

NoResponse ==
    [status |-> 0, success |-> FALSE, needsAuth |-> FALSE, configError |-> FALSE,
     skipped |-> FALSE, isUpdate |-> FALSE, cardId |-> Undefined,
     deviceDeployment |-> NullDeployment]

\* The locals of a handler before its first statement.
NewRequest(route) ==
    [route |-> route,
     webhookSecret |-> Undefined,
     providedSecret |-> Undefined,
     tokenRead |-> FALSE,
     workerUrl |-> Undefined,
     accessToken |-> Undefined,
     tokens |-> NoTokens,
     refreshedToken |-> Undefined,
     raceName |-> Undefined,
     countryFlag |-> FALSE,
     sessions |-> Undefined,
     weather |-> Undefined,
     newDataHash |-> Undefined,
     coverImageUrl |-> Undefined,
     updateExisting |-> TRUE,
     existingCardId |-> Undefined,
     title |-> Undefined,
     chapters |-> Undefined,
     yotoResult |-> NoResult,
     deployCardId |-> Undefined,
     listing |-> "none",
     devices |-> <<>>,
     accepted |-> {},
     thrown |-> Undefined,
     response |-> NoResponse,
     log |-> <<>>]

Idle == NewRequest("none")

\* The country flag is last read when the chapters are built, the cover reference
\* when createOrUpdateTTSPlaylist is called; the model drops a local of the refresh
\* routes after its last read. send-to-yoto keeps its cover reference to the end.
DropSnapshot(r) ==
    [r EXCEPT !.countryFlag = FALSE, !.sessions = Undefined, !.weather = Undefined]
DropCover(r) == [r EXCEPT !.coverImageUrl = Undefined]

Respond(r, status, fields) ==
    [r EXCEPT !.response = [f \in DOMAIN NoResponse |->
        IF f = "status" THEN status
        ELSE IF f \in DOMAIN fields THEN fields[f] ELSE NoResponse[f]]]

needsAuthFields == [needsAuth |-> TRUE]
noFields == [needsAuth |-> FALSE]
\* The answers to a missing WEBHOOK_SECRET or CLOUDFLARE_WORKER_URL.
configErrorFields == [configError |-> TRUE]

\* The error a catch block received.
Caught(r, error) == [r EXCEPT !.thrown = error.message]

-----------------------------------------------------------------------------
(* Initial state *)

Init ==
    /\ F1_DATA = EmptyNamespace
    /\ config = EmptyStore
    /\ cards = 0
    /\ liveCard = FALSE
    /\ pc = [p \in Procs |-> "idle"]
    /\ req = [p \in Procs |-> Idle]

Free(p) == pc[p] \in {"idle", "done"}

\* The handler in slot p moves to position `next` with locals r: its synchronous
\* block made the writes of store handle s and then issued `calls`.
Step(p, next, r, s, calls) ==
    /\ pc' = [pc EXCEPT ![p] = next]
    /\ req' = [req EXCEPT ![p] = [r EXCEPT !.log = r.log \o s.log \o calls]]
    /\ config' = s.data
    /\ UNCHANGED F1_DATA

\* What the worker's /playlist answers: each part may be missing. "sessions" stands
\* for a non-empty session list, "weather" for a weather object. The payloads are
\* those with sessions and weather, and those of one race without flag and
\* fingerprint that lack sessions, weather or both.
WorkerPayloads ==
    [race : RaceNames \cup {Undefined}, countryFlag : BOOLEAN,
     dataHash : DataHashes \cup {Undefined},
     sessions : {"sessions"}, weather : {"weather"}]
      \cup {payload \in [race : {"Monaco GP"}, countryFlag : {FALSE}, dataHash : {Undefined},
                         sessions : {Undefined, "sessions"},
                         weather : {Undefined, "weather"}] :
                ~Truthy(payload.sessions) \/ ~Truthy(payload.weather)}

\* The empty list.
EmptyList == "[]"

\* Mutant: the value is taken as it is.
OrElseStrict(value, default) == value

\* value || default
OrElse(value, default) == IF Truthy(value) THEN value ELSE default

\* const sessions = workerData.sessions || []; const weather = workerData.weather || null;
\* the race and its country flag are read from workerData.race.
ExtractSnapshot(r, workerData) ==
    [r EXCEPT !.raceName = workerData.race,
              !.countryFlag = workerData.countryFlag,
              !.sessions = OrElse(workerData.sessions, EmptyList),
              !.weather = OrElse(workerData.weather, Undefined)]

CoverResults == {Undefined, "cover-url"}

\* `F1: ${raceData.name}`
FreshTitle(raceName) == "F1: " \o raceName

SuccessFields(r, deployment) ==
    [success |-> TRUE, isUpdate |-> r.yotoResult.isUpdate,
     cardId |-> r.yotoResult.cardId, deviceDeployment |-> deployment]

-----------------------------------------------------------------------------
(* Login and logout *)

\* The OAuth callback stores the tokens the provider issued.
Login(p) ==
    /\ Free(p)
    /\ \E refreshToken \in {Undefined, "R0"} :
          Step(p, "done", Respond(NewRequest("login"), 200, [success |-> TRUE]),
               storeTokens(Open(config), "A0", refreshToken), <<>>)
    /\ UNCHANGED <<cards, liveCard>>

\* Mutant: logout wipes the whole store.
LogoutEverything(p) ==
    /\ Free(p)
    /\ Step(p, "done", Respond(NewRequest("logout"), 200, [success |-> TRUE]),
            storeDataHash(
              storePlaylistTitle(
                storeMyoCardId(storeCardId(clearTokens(Open(config)), Undefined), Undefined),
                Undefined),
              Undefined),
            <<>>)
    /\ liveCard' = FALSE
    /\ UNCHANGED cards

Logout(p) ==
    /\ Free(p)
    /\ Step(p, "done", Respond(NewRequest("logout"), 200, [success |-> TRUE]),
            storeMyoCardId(storeCardId(clearTokens(Open(config)), Undefined), Undefined),
            <<>>)
    /\ liveCard' = FALSE
    /\ UNCHANGED cards

-----------------------------------------------------------------------------
(* Manual refresh route *)

\* Mutant: the title is derived from the snapshot on every refresh.
RefreshTitleRegenerated(storedTitle, raceName) == FreshTitle(raceName)

\* Steps 10 and 11: the title passed to createOrUpdateTTSPlaylist.
RefreshTitle(storedTitle, raceName) ==
    IF Truthy(storedTitle) THEN storedTitle ELSE FreshTitle(raceName)

\* Mutant: no cardId is passed, every refresh creates.
RefreshCardIdAlwaysNew(cfg) == Undefined

\* The cardId passed to createOrUpdateTTSPlaylist.
RefreshCardId(cfg) == getStoredCardId(cfg)

\* Mutant: a cardId that is already stored is kept.
ManualStoreKeepFirst(s, yotoResult, title) ==
    IF Truthy(yotoResult.cardId) /\ ~Truthy(getStoredCardId(s.data))
    THEN storePlaylistTitle(storeCardId(s, yotoResult.cardId), title)
    ELSE s

\* "Store the new card ID and title".
ManualStore(s, yotoResult, title) ==
    IF Truthy(yotoResult.cardId)
    THEN storePlaylistTitle(storeCardId(s, yotoResult.cardId), title)
    ELSE s

\* Mutant: a card whose update failed is deployed as well.
ShouldDeployAnyStatus(yotoResult) == Truthy(yotoResult.cardId)

\* Step 13's guard.
ShouldDeploy(yotoResult) == Truthy(yotoResult.cardId) /\ yotoResult.status # "failed"

\* Mutant: the catch block answers every error alike.
ManualCatchGeneric(p, r, error) ==
    Step(p, "done", Respond(Caught(r, error), 500, noFields), Open(config), <<>>)

\* The catch block of the route: what it answers to a thrown error.
ManualCatch(p, r, error) ==
    Step(p, "done",
         IF isAuthError(error) THEN Respond(Caught(r, error), 401, needsAuthFields)
         ELSE Respond(Caught(r, error), 500, noFields),
         Open(config), <<>>)

ManualStart(p) ==
    /\ Free(p)
    /\ \E env \in Envs :
          LET r == NewRequest("manual")
              accessToken == getAccessToken(config)
          IN  IF ~Truthy(accessToken)
              THEN Step(p, "done", Respond(r, 401, needsAuthFields), Open(config), <<>>)
              ELSE IF ~Truthy(env.CLOUDFLARE_WORKER_URL)
              THEN Step(p, "done", Respond(r, 400, configErrorFields), Open(config), <<>>)
              ELSE Step(p, "fetchWorker", [r EXCEPT !.accessToken = accessToken],
                        Open(config), <<"call:fetchWorker">>)
    /\ UNCHANGED <<cards, liveCard>>

\* Mutant: a payload without race is let through (raceData?.dateStart).
ManualWorkerReturnLenient(p) ==
    /\ pc[p] = "fetchWorker" /\ req[p].route = "manual"
    /\ \/ Step(p, "done", Respond(req[p], 502, noFields), Open(config), <<>>)
       \/ \E workerData \in WorkerPayloads :
             Step(p, "icon", ExtractSnapshot(req[p], workerData),
                  Open(config), <<"call:uploadCardIcon">>)
    /\ UNCHANGED <<cards, liveCard>>

\* Mutant: the icon and the cover are uploaded side by side (Promise.all).
ManualWorkerReturnParallel(p) ==
    /\ pc[p] = "fetchWorker" /\ req[p].route = "manual"
    /\ \/ Step(p, "done", Respond(req[p], 502, noFields), Open(config), <<>>)
       \/ \E workerData \in WorkerPayloads :
             IF workerData.race = Undefined
             THEN ManualCatch(p, req[p], TypeError)
             ELSE IF ExtractSnapshot(req[p], workerData).sessions = Undefined
             THEN ManualCatch(p, ExtractSnapshot(req[p], workerData), TypeError)
             ELSE Step(p, "icon", ExtractSnapshot(req[p], workerData),
                       Open(config), <<"call:uploadCardIcon", "call:uploadCardCoverImage">>)
    /\ UNCHANGED <<cards, liveCard>>

ManualWorkerReturn(p) ==
    /\ pc[p] = "fetchWorker" /\ req[p].route = "manual"
    /\ \/ Step(p, "done", Respond(req[p], 502, noFields), Open(config), <<>>)
       \/ \E workerData \in WorkerPayloads :
             IF workerData.race = Undefined
             THEN \* raceData.dateStart throws a TypeError
                  ManualCatch(p, req[p], TypeError)
             ELSE IF ExtractSnapshot(req[p], workerData).sessions = Undefined
             THEN \* sessions.map throws a TypeError
                  ManualCatch(p, ExtractSnapshot(req[p], workerData), TypeError)
             ELSE Step(p, "icon", ExtractSnapshot(req[p], workerData),
                       Open(config), <<"call:uploadCardIcon">>)
    /\ UNCHANGED <<cards, liveCard>>

ManualIconReturn(p) ==
    /\ pc[p] = "icon" /\ req[p].route = "manual"
    /\ IF req[p].countryFlag
       THEN Step(p, "flag", req[p], Open(config), <<"call:uploadCountryFlagIcon">>)
       ELSE Step(p, "cover", req[p], Open(config), <<"call:uploadCardCoverImage">>)
    /\ UNCHANGED <<cards, liveCard>>

ManualFlagReturn(p) ==
    /\ pc[p] = "flag" /\ req[p].route = "manual"
    /\ Step(p, "cover", req[p], Open(config), <<"call:uploadCardCoverImage">>)
    /\ UNCHANGED <<cards, liveCard>>

\* Mutant: the title is stored as soon as it is chosen, before the card exists.
ManualCoverReturnEager(p) ==
    /\ pc[p] = "cover" /\ req[p].route = "manual"
    /\ \E coverImageUrl \in CoverResults :
          LET title == RefreshTitle(getStoredPlaylistTitle(config), req[p].raceName)
          IN  Step(p, "reconcile",
                   DropSnapshot(
                     [req[p] EXCEPT !.coverImageUrl = coverImageUrl,
                                    !.existingCardId = RefreshCardId(config),
                                    !.title = title]),
                   storePlaylistTitle(Open(config), title),
                   <<"call:buildF1Chapters", "call:createOrUpdateTTSPlaylist">>)
    /\ UNCHANGED <<cards, liveCard>>

ManualCoverReturn(p) ==
    /\ pc[p] = "cover" /\ req[p].route = "manual"
    /\ \E coverImageUrl \in CoverResults :
          Step(p, "reconcile",
               DropSnapshot(
                 [req[p] EXCEPT !.coverImageUrl = coverImageUrl,
                                !.existingCardId = RefreshCardId(config),
                                !.title = RefreshTitle(getStoredPlaylistTitle(config),
                                                       req[p].raceName)]),
               Open(config), <<"call:buildF1Chapters", "call:createOrUpdateTTSPlaylist">>)
    /\ UNCHANGED <<cards, liveCard>>

ManualReconcileReturn(p) ==
    /\ pc[p] = "reconcile" /\ req[p].route = "manual"
    /\ \E outcome \in ReconcileOutcomes(req[p].existingCardId) :
          /\ ReconcileCreates(outcome) => cards < MaxCards
          /\ cards' = IF ReconcileCreates(outcome) THEN cards + 1 ELSE cards
          /\ liveCard' = (liveCard \/ ReconcileCreates(outcome))
          /\ IF ReconcileThrows(outcome)
             THEN ManualCatch(p, DropCover(req[p]), ReconcileError(outcome))
             ELSE LET yotoResult ==
                          createOrUpdateTTSPlaylist(req[p].existingCardId, outcome, cards)
                      r == DropCover([req[p] EXCEPT !.yotoResult = yotoResult])
                      s == ManualStore(Open(config), yotoResult, req[p].title)
                  IN  IF ShouldDeploy(yotoResult)
                      THEN Step(p, "deploy", [r EXCEPT !.deployCardId = yotoResult.cardId], s,
                                <<"call:deployToAllDevices">>)
                      ELSE Step(p, "done", Respond(r, 200, SuccessFields(r, NullDeployment)),
                                s, <<>>)

\* deployToAllDevices returns to the refresh routes, which catch what it throws.
RefreshDeployReturn(p) ==
    \/ \* getDevices throws; the route logs it and answers with deviceDeployment null
       LET r == [req[p] EXCEPT !.listing = "threw"]
       IN  Step(p, "done", Respond(r, 200, SuccessFields(r, RefreshDeployCatch)),
                Open(config), <<>>)
    \/ \E n \in 0..MaxDevices :
         \E accepted \in SUBSET {DeviceList(n)[i].id : i \in 1..n} :
            LET devices == DeviceList(n)
                r == [req[p] EXCEPT !.listing = "listed", !.devices = devices,
                                       !.accepted = accepted]
            IN  Step(p, "done",
                     Respond(r, 200, SuccessFields(r, deployToAllDevices(devices, accepted))),
                     Open(config), <<>>)

ManualDeployReturn(p) ==
    /\ pc[p] = "deploy" /\ req[p].route = "manual"
    /\ RefreshDeployReturn(p)
    /\ UNCHANGED <<cards, liveCard>>

-----------------------------------------------------------------------------
(* Webhook refresh route *)

\* How the exchange at the token endpoint ends: a non-OK answer, a thrown error, new
\* tokens with a new refresh token, new tokens without one.
RefreshOutcomes == {"failed", "threw", "rotated", "kept"}
\* No exchange was made.
NoExchange == "none"

\* response.json() of an OK answer of the token endpoint.
TokenAnswer(outcome) ==
    [access_token |-> "A1",
     refresh_token |-> IF outcome = "rotated" THEN "R1" ELSE Undefined]

\* Mutant: the refresh token of the answer is stored as it is, returned or not.
refreshAccessTokenDropping(s, tokens, outcome) ==
    IF ~Truthy(tokens.refreshToken) \/ outcome \notin {"rotated", "kept"}
    THEN [store |-> s, token |-> Undefined]
    ELSE LET newTokens == TokenAnswer(outcome)
         IN  [store |-> storeTokens(s, newTokens.access_token, newTokens.refresh_token),
              token |-> newTokens.access_token]

\* refreshAccessToken once the token endpoint has answered, or without an exchange
\* when no refresh token is stored: the store handle and the token it returns.
\* `tokens` is what it read from the store before the exchange.
refreshAccessToken(s, tokens, outcome) ==
    IF ~Truthy(tokens.refreshToken) \/ outcome \notin {"rotated", "kept"}
    THEN [store |-> s, token |-> Undefined]
    ELSE LET newTokens == TokenAnswer(outcome)
             usedRefreshToken == IF Truthy(newTokens.refresh_token)
                                 THEN newTokens.refresh_token ELSE tokens.refreshToken
         IN  [store |-> storeTokens(s, newTokens.access_token, usedRefreshToken),
              token |-> newTokens.access_token]

\* Step 3 and the fetch of step 4, with the access token the handler goes on with.
WebhookProceed(p, r, s, accessToken, workerUrl) ==
    IF ~Truthy(workerUrl)
    THEN Step(p, "done",
              Respond([r EXCEPT !.accessToken = accessToken, !.workerUrl = Undefined],
                      400, configErrorFields),
              s, <<>>)
    ELSE Step(p, "fetchWorker",
              [r EXCEPT !.accessToken = accessToken, !.workerUrl = Undefined], s,
              <<"call:fetchWorker">>)

\* Mutant: the catch block answers an authentication error with another token
\* refresh and a new run.
WebhookCatchRetrying(p, r, error) ==
    IF isAuthError(error)
    THEN Step(p, "tokenRefresh", [r EXCEPT !.tokens = getStoredTokens(config)],
              Open(config), <<"call:tokenRefresh">>)
    ELSE Step(p, "done", Respond(Caught(r, error), 500, noFields), Open(config), <<>>)

\* Mutant: the catch block forgets the card so that the next run starts afresh.
WebhookCatchResetting(p, r, error) ==
    Step(p, "done", Respond(Caught(r, error), 500, noFields),
         storeCardId(Open(config), Undefined), <<>>)

\* The catch block of the route: every thrown error is answered with a 500.
WebhookCatch(p, r, error) ==
    Step(p, "done", Respond(Caught(r, error), 500, noFields), Open(config), <<>>)

\* A webhook request as it arrives: the configured secret and the X-Webhook-Secret
\* header it carries.
Received(route, env, providedSecret) ==
    [NewRequest(route) EXCEPT !.webhookSecret = env.WEBHOOK_SECRET,
                              !.providedSecret = providedSecret]

\* Mutant: any secret is accepted as long as the header is present.
WebhookStartPresence(p) ==
    /\ Free(p)
    /\ \E env \in Envs, providedSecret \in WebhookSecrets :
          LET received == Received("webhook", env, providedSecret)
              r == [received EXCEPT !.tokenRead = TRUE]
              accessToken == getAccessToken(config)
              tokens == getStoredTokens(config)
          IN  IF ~Truthy(env.WEBHOOK_SECRET)
              THEN Step(p, "done", Respond(received, 500, configErrorFields),
                        Open(config), <<>>)
              ELSE IF ~Truthy(providedSecret)
              THEN Step(p, "done", Respond(received, 401, noFields), Open(config), <<>>)
              ELSE IF ~Truthy(accessToken)
              THEN Step(p, "done", Respond(r, 401, noFields), Open(config), <<>>)
              ELSE IF ~Truthy(tokens.refreshToken)
              THEN \* refreshAccessToken returns null without an exchange
                   WebhookProceed(p, r, refreshAccessToken(Open(config), tokens, NoExchange).store,
                                  accessToken, env.CLOUDFLARE_WORKER_URL)
              ELSE Step(p, "tokenRefresh",
                        [r EXCEPT !.accessToken = accessToken, !.tokens = tokens,
                                  !.workerUrl = env.CLOUDFLARE_WORKER_URL],
                        Open(config), <<"call:tokenRefresh">>)
    /\ UNCHANGED <<cards, liveCard>>

WebhookStart(p) ==
    /\ Free(p)
    /\ \E env \in Envs, providedSecret \in WebhookSecrets :
          LET received == Received("webhook", env, providedSecret)
              r == [received EXCEPT !.tokenRead = TRUE]
              accessToken == getAccessToken(config)
              tokens == getStoredTokens(config)
          IN  IF ~Truthy(env.WEBHOOK_SECRET)
              THEN Step(p, "done", Respond(received, 500, configErrorFields),
                        Open(config), <<>>)
              ELSE IF ~Truthy(providedSecret) \/ providedSecret # env.WEBHOOK_SECRET
              THEN Step(p, "done", Respond(received, 401, noFields), Open(config), <<>>)
              ELSE IF ~Truthy(accessToken)
              THEN Step(p, "done", Respond(r, 401, noFields), Open(config), <<>>)
              ELSE IF ~Truthy(tokens.refreshToken)
              THEN \* refreshAccessToken returns null without an exchange
                   WebhookProceed(p, r, refreshAccessToken(Open(config), tokens, NoExchange).store,
                                  accessToken, env.CLOUDFLARE_WORKER_URL)
              ELSE Step(p, "tokenRefresh",
                        [r EXCEPT !.accessToken = accessToken, !.tokens = tokens,
                                  !.workerUrl = env.CLOUDFLARE_WORKER_URL],
                        Open(config), <<"call:tokenRefresh">>)
    /\ UNCHANGED <<cards, liveCard>>

\* GET on the webhook: the secret check of POST, then the configuration status.
WebhookGet(p) ==
    /\ Free(p)
    /\ \E env \in Envs, providedSecret \in WebhookSecrets :
          LET received == Received("webhookGet", env, providedSecret)
          IN  IF ~Truthy(env.WEBHOOK_SECRET)
              THEN Step(p, "done", Respond(received, 500, configErrorFields),
                        Open(config), <<>>)
              ELSE IF ~Truthy(providedSecret) \/ providedSecret # env.WEBHOOK_SECRET
              THEN Step(p, "done", Respond(received, 401, noFields), Open(config), <<>>)
              ELSE Step(p, "done",
                        Respond([received EXCEPT !.tokenRead = TRUE,
                                                 !.accessToken = getAccessToken(config),
                                                 !.workerUrl = env.CLOUDFLARE_WORKER_URL],
                                200, noFields),
                        Open(config), <<>>)
    /\ UNCHANGED <<cards, liveCard>>

\* Mutant: a failed refresh is ignored and the stored access token used.
WebhookTokenReturnLenient(p) ==
    /\ pc[p] = "tokenRefresh" /\ req[p].route = "webhook"
    /\ \E outcome \in RefreshOutcomes :
          LET refreshed == refreshAccessToken(Open(config), req[p].tokens, outcome)
              r == [req[p] EXCEPT !.refreshedToken = refreshed.token]
          IN  IF Truthy(refreshed.token)
              THEN WebhookProceed(p, r, refreshed.store, refreshed.token, r.workerUrl)
              ELSE WebhookProceed(p, r, refreshed.store, r.accessToken, r.workerUrl)
    /\ UNCHANGED <<cards, liveCard>>

WebhookTokenReturn(p) ==
    /\ pc[p] = "tokenRefresh" /\ req[p].route = "webhook"
    /\ \E outcome \in RefreshOutcomes :
          LET refreshed == refreshAccessToken(Open(config), req[p].tokens, outcome)
              r == [req[p] EXCEPT !.refreshedToken = refreshed.token]
          IN  IF Truthy(refreshed.token)
              THEN WebhookProceed(p, r, refreshed.store, refreshed.token, r.workerUrl)
              ELSE IF Truthy(getStoredTokens(config).refreshToken)
              THEN Step(p, "done", Respond(r, 401, noFields), refreshed.store, <<>>)
              ELSE WebhookProceed(p, r, refreshed.store, r.accessToken, r.workerUrl)
    /\ UNCHANGED <<cards, liveCard>>

\* Mutant: the comparison with the stored hash is lost.
UnchangedIgnored(cfg, newDataHash) == FALSE

\* Step 4b: the payload carries the hash of the last update that was stored.
Unchanged(cfg, newDataHash) ==
    /\ Truthy(newDataHash)
    /\ Truthy(getStoredDataHash(cfg))
    /\ getStoredDataHash(cfg) = newDataHash

WebhookWorkerReturn(p) ==
    /\ pc[p] = "fetchWorker" /\ req[p].route = "webhook"
    /\ \/ Step(p, "done", Respond(req[p], 502, noFields), Open(config), <<>>)
       \/ \E workerData \in WorkerPayloads :
             LET r == [req[p] EXCEPT !.newDataHash = workerData.dataHash,
                                     !.raceName = workerData.race]
             IN  IF Unchanged(config, workerData.dataHash)
                 THEN Step(p, "done", Respond(r, 200, [success |-> TRUE, skipped |-> TRUE]),
                           Open(config), <<>>)
                 ELSE IF workerData.race = Undefined
                 THEN \* raceData.dateStart throws a TypeError
                      WebhookCatch(p, r, TypeError)
                 ELSE IF ExtractSnapshot(r, workerData).sessions = Undefined
                 THEN \* sessions.map throws a TypeError
                      WebhookCatch(p, ExtractSnapshot(r, workerData), TypeError)
                 ELSE Step(p, "icon", ExtractSnapshot(r, workerData),
                           Open(config), <<"call:uploadCardIcon">>)
    /\ UNCHANGED <<cards, liveCard>>

WebhookIconReturn(p) ==
    /\ pc[p] = "icon" /\ req[p].route = "webhook"
    /\ IF req[p].countryFlag
       THEN Step(p, "flag", req[p], Open(config), <<"call:uploadCountryFlagIcon">>)
       ELSE Step(p, "cover", req[p], Open(config), <<"call:uploadCardCoverImage">>)
    /\ UNCHANGED <<cards, liveCard>>

WebhookFlagReturn(p) ==
    /\ pc[p] = "flag" /\ req[p].route = "webhook"
    /\ Step(p, "cover", req[p], Open(config), <<"call:uploadCardCoverImage">>)
    /\ UNCHANGED <<cards, liveCard>>

WebhookCoverReturn(p) ==
    /\ pc[p] = "cover" /\ req[p].route = "webhook"
    /\ \E coverImageUrl \in CoverResults :
          Step(p, "reconcile",
               DropSnapshot(
                 [req[p] EXCEPT !.coverImageUrl = coverImageUrl,
                                !.existingCardId = RefreshCardId(config),
                                !.title = RefreshTitle(getStoredPlaylistTitle(config),
                                                       req[p].raceName)]),
               Open(config), <<"call:buildF1Chapters", "call:createOrUpdateTTSPlaylist">>)
    /\ UNCHANGED <<cards, liveCard>>

\* Mutant: card id and title are stored only for a card that did not fail.
WebhookStoreOnSuccess(s, yotoResult, title, newDataHash) ==
    LET s1 == IF Truthy(yotoResult.cardId) /\ yotoResult.status # "failed"
              THEN storePlaylistTitle(storeCardId(s, yotoResult.cardId), title)
              ELSE s
    IN  IF Truthy(newDataHash) THEN storeDataHash(s1, newDataHash) ELSE s1

\* The stores after createOrUpdateTTSPlaylist has returned: card id and title, then
\* "Persist the data hash so the next run can skip if nothing has changed".
WebhookStore(s, yotoResult, title, newDataHash) ==
    LET s1 == IF Truthy(yotoResult.cardId)
              THEN storePlaylistTitle(storeCardId(s, yotoResult.cardId), title)
              ELSE s
    IN  IF Truthy(newDataHash) THEN storeDataHash(s1, newDataHash) ELSE s1

WebhookReconcileReturn(p) ==
    /\ pc[p] = "reconcile" /\ req[p].route = "webhook"
    /\ \E outcome \in ReconcileOutcomes(req[p].existingCardId) :
          /\ ReconcileCreates(outcome) => cards < MaxCards
          /\ cards' = IF ReconcileCreates(outcome) THEN cards + 1 ELSE cards
          /\ liveCard' = (liveCard \/ ReconcileCreates(outcome))
          /\ IF ReconcileThrows(outcome)
             THEN WebhookCatch(p, DropCover(req[p]), ReconcileError(outcome))
             ELSE LET yotoResult ==
                          createOrUpdateTTSPlaylist(req[p].existingCardId, outcome, cards)
                      r == DropCover([req[p] EXCEPT !.yotoResult = yotoResult])
                      s == WebhookStore(Open(config), yotoResult, req[p].title,
                                        req[p].newDataHash)
                  IN  IF ShouldDeploy(yotoResult)
                      THEN Step(p, "deploy", [r EXCEPT !.deployCardId = yotoResult.cardId], s,
                                <<"call:deployToAllDevices">>)
                      ELSE Step(p, "done", Respond(r, 200, SuccessFields(r, NullDeployment)),
                                s, <<>>)

WebhookDeployReturn(p) ==
    /\ pc[p] = "deploy" /\ req[p].route = "webhook"
    /\ RefreshDeployReturn(p)
    /\ UNCHANGED <<cards, liveCard>>

-----------------------------------------------------------------------------
(* send-to-yoto route *)

\* The body of a request: chapters is missing, a value that is not a list, an empty
\* list or a list of chapters.
SendBodies ==
    [chapters : {Undefined, "not-a-list", EmptyList, "[chapter]"},
     title : RequestTitles, updateExisting : BOOLEAN]

\* Mutant: only a missing chapters value is refused.
NoChaptersMissing(chapters) == ~Truthy(chapters)

\* !chapters || !Array.isArray(chapters) || chapters.length === 0
NoChapters(chapters) ==
    LET isArray == chapters \in {EmptyList, "[chapter]"}
        length == IF chapters = EmptyList THEN 0 ELSE 1
    IN  ~Truthy(chapters) \/ ~isArray \/ length = 0

\* const { title = "F1: Next Race" } = body
SendTitle(title) == IF title = Undefined THEN "F1: Next Race" ELSE title

\* Step 4: the cardId passed to createOrUpdateTTSPlaylist.
SendCardId(cfg, updateExisting) ==
    IF updateExisting THEN getStoredCardId(cfg) ELSE Undefined

\* Mutant: the title is left for a later request to store.
SendStoreCardOnly(s, yotoResult, title) ==
    IF Truthy(yotoResult.cardId) THEN storeCardId(s, yotoResult.cardId) ELSE s

\* "Store card ID and title for future updates".
SendStore(s, yotoResult, title) ==
    IF Truthy(yotoResult.cardId)
    THEN storePlaylistTitle(storeCardId(s, yotoResult.cardId), title)
    ELSE s

\* The catch block of the route.
SendCatch(p, r, error) ==
    Step(p, "done",
         IF isAuthError(error) THEN Respond(Caught(r, error), 401, needsAuthFields)
         ELSE Respond(Caught(r, error), 500, noFields),
         Open(config), <<>>)

\* Steps 1 to 3.
SendStart(p) ==
    /\ Free(p)
    /\ LET r == NewRequest("send")
           accessToken == getAccessToken(config)
       IN  IF ~Truthy(accessToken)
           THEN Step(p, "done", Respond(r, 401, needsAuthFields), Open(config), <<>>)
           ELSE \E chapters \in {body.chapters : body \in SendBodies} :
                   IF NoChapters(chapters)
                   THEN Step(p, "done",
                             Respond([r EXCEPT !.accessToken = accessToken,
                                               !.chapters = chapters], 400, noFields),
                             Open(config), <<>>)
                   ELSE \E body \in {b \in SendBodies : b.chapters = chapters} :
                           Step(p, "cover",
                                [r EXCEPT !.accessToken = accessToken,
                                          !.chapters = body.chapters,
                                          !.title = SendTitle(body.title),
                                          !.updateExisting = body.updateExisting],
                                Open(config), <<"call:uploadCardCoverImage">>)
    /\ UNCHANGED <<cards, liveCard>>

\* Mutant: a cover that could not be uploaded ends the request.
SendCoverReturnStrict(p) ==
    /\ pc[p] = "cover" /\ req[p].route = "send"
    /\ \E coverImageUrl \in CoverResults :
          IF coverImageUrl = Undefined
          THEN SendCatch(p, req[p], BackendError)
          ELSE Step(p, "reconcile",
                    [req[p] EXCEPT !.coverImageUrl = coverImageUrl,
                                   !.existingCardId =
                                       SendCardId(config, req[p].updateExisting)],
                    Open(config), <<"call:createOrUpdateTTSPlaylist">>)
    /\ UNCHANGED <<cards, liveCard>>

SendCoverReturn(p) ==
    /\ pc[p] = "cover" /\ req[p].route = "send"
    /\ \E coverImageUrl \in CoverResults :
          Step(p, "reconcile",
               [req[p] EXCEPT !.coverImageUrl = coverImageUrl,
                              !.existingCardId = SendCardId(config, req[p].updateExisting)],
               Open(config), <<"call:createOrUpdateTTSPlaylist">>)
    /\ UNCHANGED <<cards, liveCard>>

SendReconcileReturn(p) ==
    /\ pc[p] = "reconcile" /\ req[p].route = "send"
    /\ \E outcome \in ReconcileOutcomes(req[p].existingCardId) :
          /\ ReconcileCreates(outcome) => cards < MaxCards
          /\ cards' = IF ReconcileCreates(outcome) THEN cards + 1 ELSE cards
          /\ liveCard' = (liveCard \/ ReconcileCreates(outcome))
          /\ IF ReconcileThrows(outcome)
             THEN SendCatch(p, req[p], ReconcileError(outcome))
             ELSE LET yotoResult ==
                          createOrUpdateTTSPlaylist(req[p].existingCardId, outcome, cards)
                      r == [req[p] EXCEPT !.yotoResult = yotoResult]
                      s == SendStore(Open(config), yotoResult, req[p].title)
                  IN  IF Truthy(yotoResult.cardId)
                      THEN Step(p, "deploy", [r EXCEPT !.deployCardId = yotoResult.cardId], s,
                                <<"call:deployToAllDevices">>)
                      ELSE Step(p, "done", Respond(r, 200, SuccessFields(r, NullDeployment)),
                                s, <<>>)

SendDeployReturn(p) ==
    /\ pc[p] = "deploy" /\ req[p].route = "send"
    /\ \/ \* getDevices throws; the catch builds a zero summary carrying the error
          LET r == [req[p] EXCEPT !.listing = "threw"]
          IN  Step(p, "done", Respond(r, 200, SuccessFields(r, SendDeployCatch)),
                   Open(config), <<>>)
       \/ \E n \in 0..MaxDevices :
            \E accepted \in SUBSET {DeviceList(n)[i].id : i \in 1..n} :
               LET devices == DeviceList(n)
                   r == [req[p] EXCEPT !.listing = "listed", !.devices = devices,
                                       !.accepted = accepted]
               IN  Step(p, "done",
                        Respond(r, 200,
                                SuccessFields(r, deployToAllDevices(devices, accepted))),
                        Open(config), <<>>)
    /\ UNCHANGED <<cards, liveCard>>

-----------------------------------------------------------------------------
(* Specification *)

Handle(p) ==
    \/ Login(p)
    \/ Logout(p)
    \/ ManualStart(p)
    \/ ManualWorkerReturn(p)
    \/ ManualIconReturn(p)
    \/ ManualFlagReturn(p)
    \/ ManualCoverReturn(p)
    \/ ManualReconcileReturn(p)
    \/ ManualDeployReturn(p)
    \/ WebhookStart(p)
    \/ WebhookTokenReturn(p)
    \/ WebhookWorkerReturn(p)
    \/ WebhookIconReturn(p)
    \/ WebhookFlagReturn(p)
    \/ WebhookCoverReturn(p)
    \/ WebhookReconcileReturn(p)
    \/ WebhookDeployReturn(p)
    \/ SendStart(p)
    \/ SendCoverReturn(p)
    \/ SendReconcileReturn(p)
    \/ SendDeployReturn(p)

\* Requests are served one at a time.
Next == \E p \in SeqProcs : Handle(p)

Spec == Init /\ [][Next]_vars

-----------------------------------------------------------------------------
(* MYO audio upload route *)

\* Status polls waitForTranscoding makes at most before it gives up.
MaxPollAttempts == 3

TranscodeTimeoutError == [status |-> 0, message |-> "Transcoding timed out"]
TranscodeFailedError == [status |-> 0, message |-> "Transcoding failed"]
UploadRejectedError == [status |-> 0, message |-> "Upload rejected"]

\* What one poll of the transcode-status endpoint can answer.
TranscodeStatuses == {"pending", "processing", "succeeded", "failed"}

\* waitForTranscoding after its attempts-th poll answered `status`: it returns the
\* transcoded audio ("ready"), throws ("failed", "timed_out") or sleeps and polls
\* again ("transcoding").
waitForTranscoding(attempts, status) ==
    CASE status = "succeeded" -> "ready"
      [] status = "failed" -> "failed"
      [] attempts >= MaxPollAttempts -> "timed_out"
      [] OTHER -> "transcoding"

UploadForms == [audio : BOOLEAN, title : RequestTitles, updateExisting : BOOLEAN]

\* formData.get('title') || 'F1 Update'
UploadTitle(title) == IF Truthy(title) THEN title ELSE "F1 Update"

\* The locals of the upload handler before its first statement; job is the state of
\* its upload job and attempts the number of status polls made for it.
NewUpload ==
    [route |-> "upload",
     accessToken |-> Undefined,
     title |-> Undefined,
     updateExisting |-> FALSE,
     job |-> "none",
     attempts |-> 0,
     coverImageUrl |-> Undefined,
     existingCardId |-> Undefined,
     thrown |-> Undefined,
     response |-> NoResponse,
     log |-> <<>>]

\* The id of a playlist card one of the text-to-speech routes stored earlier.
TtsCardId == "tts-card"

UploadInit ==
    /\ F1_DATA = EmptyNamespace
    /\ \E cardId \in {Undefined, TtsCardId} :
          config = [EmptyStore EXCEPT !.f1CardId = cardId]
    /\ cards = 0
    /\ liveCard = FALSE
    /\ pc = [p \in Procs |-> "idle"]
    /\ req = [p \in Procs |-> NewUpload]

\* The OAuth callback, seen from the upload route's store.
UploadLogin(p) ==
    /\ Free(p)
    /\ config.tokens = NoTokens
    /\ Step(p, "done", Respond(NewUpload, 200, [success |-> TRUE]),
            storeTokens(Open(config), "A0", "R0"), <<>>)
    /\ UNCHANGED <<cards, liveCard>>

\* The catch block of the route.
UploadCatch(p, r, error) ==
    Step(p, "done",
         IF isAuthError(error) THEN Respond(Caught(r, error), 401, needsAuthFields)
         ELSE Respond(Caught(r, error), 500, noFields),
         Open(config), <<>>)

UploadStart(p) ==
    /\ Free(p)
    /\ LET accessToken == getAccessToken(config)
       IN  IF ~Truthy(accessToken)
           THEN Step(p, "done", Respond(NewUpload, 401, needsAuthFields), Open(config), <<>>)
           ELSE \E form \in UploadForms :
                   IF ~form.audio
                   THEN Step(p, "done", Respond(NewUpload, 400, noFields), Open(config), <<>>)
                   ELSE Step(p, "uploadUrl",
                             [NewUpload EXCEPT !.accessToken = accessToken,
                                               !.title = UploadTitle(form.title),
                                               !.updateExisting = form.updateExisting,
                                               !.job = "requested"],
                             Open(config), <<"call:requestAudioUploadUrl">>)
    /\ UNCHANGED <<cards, liveCard>>

\* Step 1 returns: the upload target, or an error of the backend.
UploadUrlReturn(p) ==
    /\ pc[p] = "uploadUrl" /\ req[p].route = "upload"
    /\ \/ Step(p, "uploadFile", [req[p] EXCEPT !.job = "uploading"], Open(config),
               <<"call:uploadAudioFile">>)
       \/ UploadCatch(p, [req[p] EXCEPT !.job = "failed"], AuthError)
    /\ UNCHANGED <<cards, liveCard>>

\* Step 2 returns: the bytes are transmitted, or the upload is rejected.
UploadFileReturn(p) ==
    /\ pc[p] = "uploadFile" /\ req[p].route = "upload"
    /\ \/ Step(p, "transcoding", [req[p] EXCEPT !.job = "transcoding"], Open(config),
               <<"call:waitForTranscoding">>)
       \/ UploadCatch(p, [req[p] EXCEPT !.job = "failed"], UploadRejectedError)
    /\ UNCHANGED <<cards, liveCard>>

\* Mutant: the route goes on with whatever waitForTranscoding ended with.
UploadPollReturnLenient(p) ==
    /\ pc[p] = "transcoding" /\ req[p].route = "upload"
    /\ \E status \in TranscodeStatuses :
          LET attempts == req[p].attempts + 1
              job == waitForTranscoding(attempts, status)
              r == [req[p] EXCEPT !.attempts = attempts, !.job = job]
          IN  IF job = "transcoding"
              THEN Step(p, "transcoding", r, Open(config), <<>>)
              ELSE Step(p, "cover", r, Open(config), <<"call:uploadCardCoverImage">>)
    /\ UNCHANGED <<cards, liveCard>>

\* Step 3: one poll of waitForTranscoding answers; the route goes on to step 4 when
\* waitForTranscoding returns and to its catch block when it throws.
UploadPollReturn(p) ==
    /\ pc[p] = "transcoding" /\ req[p].route = "upload"
    /\ \E status \in TranscodeStatuses :
          LET attempts == req[p].attempts + 1
              job == waitForTranscoding(attempts, status)
              r == [req[p] EXCEPT !.attempts = attempts, !.job = job]
          IN  CASE job = "ready" ->
                      Step(p, "cover", r, Open(config), <<"call:uploadCardCoverImage">>)
                [] job = "failed" -> UploadCatch(p, r, TranscodeFailedError)
                [] job = "timed_out" -> UploadCatch(p, r, TranscodeTimeoutError)
                [] OTHER -> Step(p, "transcoding", r, Open(config), <<>>)
    /\ UNCHANGED <<cards, liveCard>>

\* Mutant: the route looks up the card of the text-to-speech playlist.
UploadCoverReturnShared(p) ==
    /\ pc[p] = "cover" /\ req[p].route = "upload"
    /\ \E coverImageUrl \in CoverResults :
          Step(p, "createCard",
               [req[p] EXCEPT !.coverImageUrl = coverImageUrl,
                              !.existingCardId =
                                  IF req[p].updateExisting THEN getStoredCardId(config)
                                  ELSE Undefined],
               Open(config), <<"call:createAudioCard">>)
    /\ UNCHANGED <<cards, liveCard>>

\* Steps 4 to 6.
UploadCoverReturn(p) ==
    /\ pc[p] = "cover" /\ req[p].route = "upload"
    /\ \E coverImageUrl \in CoverResults :
          Step(p, "createCard",
               [req[p] EXCEPT !.coverImageUrl = coverImageUrl,
                              !.existingCardId =
                                  IF req[p].updateExisting THEN config.f1MyoCardId
                                  ELSE Undefined],
               Open(config), <<"call:createAudioCard">>)
    /\ UNCHANGED <<cards, liveCard>>

\* createAudioCard returns the card, or throws; "Store card ID if new".
UploadCardReturn(p) ==
    /\ pc[p] = "createCard" /\ req[p].route = "upload"
    /\ \/ /\ UploadCatch(p, req[p], BackendError)
          /\ UNCHANGED cards
       \/ LET r == req[p]
              isNew == ~Truthy(r.existingCardId)
              cardId == IF isNew THEN CardIdOf(cards + 1) ELSE r.existingCardId
          IN  /\ isNew => cards < MaxCards
              /\ cards' = IF isNew THEN cards + 1 ELSE cards
              /\ Step(p, "done",
                      Respond(r, 200, [success |-> TRUE, cardId |-> cardId,
                                       isUpdate |-> Truthy(r.existingCardId)]),
                      IF Truthy(cardId) /\ ~Truthy(r.existingCardId)
                      THEN ConfigSet(Open(config), "f1MyoCardId", cardId)
                      ELSE Open(config),
                      <<>>)
    /\ UNCHANGED liveCard

UploadHandle(p) ==
    \/ UploadLogin(p)
    \/ UploadStart(p)
    \/ UploadUrlReturn(p)
    \/ UploadFileReturn(p)
    \/ UploadPollReturn(p)
    \/ UploadCoverReturn(p)
    \/ UploadCardReturn(p)

UploadNext == \E p \in SeqProcs : UploadHandle(p)

UploadSpec == UploadInit /\ [][UploadNext]_vars

-----------------------------------------------------------------------------
(* Properties *)

RefreshRoutes == {"manual", "webhook"}
IdentityKeys == {"f1CardId", "f1PlaylistTitle", "f1DataHash"}
PipelineCalls ==
    {"uploadCardIcon", "uploadCountryFlagIcon", "uploadCardCoverImage", "buildF1Chapters",
     "createOrUpdateTTSPlaylist", "deployToAllDevices"}

Wrote(r, key) == \E i \in 1..Len(r.log) : r.log[i] = "write:" \o key
Called(r, name) == \E i \in 1..Len(r.log) : r.log[i] = "call:" \o name
IsIdentityWrite(e) == \E k \in IdentityKeys : e = "write:" \o k
WroteIdentity(r) == \E k \in IdentityKeys : Wrote(r, k)
Done(p) == pc[p] = "done"
Failed(r) == r.response.status \in {400, 401, 500, 502}
\* A refresh that answered success after createOrUpdateTTSPlaylist returned a card
\* that did not fail.
Succeeded(p) ==
    /\ Done(p)
    /\ req[p].route \in RefreshRoutes
    /\ req[p].response.success
    /\ ~req[p].response.skipped
    /\ req[p].yotoResult.status = "completed"

C2_Original ==
    [][(cards > 0 /\ Truthy(config.f1PlaylistTitle))
          => config'.f1PlaylistTitle = config.f1PlaylistTitle]_vars

\* C2 as amended: once a title is stored, manual and webhook refreshes leave it as it
\* is whatever the race name; only send-to-yoto changes it, to the title of its
\* request.
C2_TitleStableAcrossRefreshes ==
    [][(Truthy(config.f1PlaylistTitle) /\ config'.f1PlaylistTitle # config.f1PlaylistTitle)
          => \E p \in Procs :
                /\ req[p].route = "send"
                /\ pc[p] = "reconcile"
                /\ config'.f1PlaylistTitle = req[p].title]_vars

\* C2 witness: a refresh for another race has updated the card and written the title,
\* and the stored title is not the one derived from that race.
C2_Witness ==
    \E p \in Procs :
        /\ Succeeded(p)
        /\ req[p].response.isUpdate
        /\ Wrote(req[p], "f1PlaylistTitle")
        /\ Truthy(req[p].raceName)
        /\ getStoredPlaylistTitle(config) = req[p].title
        /\ getStoredPlaylistTitle(config) # FreshTitle(req[p].raceName)

\* C3: fingerprint short-circuit. A webhook run whose payload carries the stored hash
\* never enters the pipeline; it answers success with skipped = true, has called no
\* upload, no chapter building, no createOrUpdateTTSPlaylist and no deployment, and
\* has written none of cardId, title and hash.
C3_FingerprintShortCircuit ==
    \A p \in Procs :
        LET r == req[p] IN
        r.route = "webhook" =>
            /\ pc[p] \in {"icon", "flag", "cover", "reconcile"}
                  => ~(Truthy(r.newDataHash) /\ r.newDataHash = getStoredDataHash(config))
            /\ (Done(p) /\ r.response.skipped) =>
                  /\ r.response.success /\ r.response.status = 200
                  /\ Truthy(r.newDataHash) /\ r.newDataHash = getStoredDataHash(config)
                  /\ \A c \in PipelineCalls : ~Called(r, c)
                  /\ ~WroteIdentity(r)

\* C3 witness: a webhook run was skipped.
C3_Witness ==
    \E p \in Procs :
        /\ Done(p) /\ req[p].route = "webhook" /\ req[p].response.skipped
        /\ Called(req[p], "fetchWorker")

\* C4 as stated: a webhook run that has written the data hash got a cardId with a
\* status other than failed from createOrUpdateTTSPlaylist.
C4_HashOnlyAfterSuccess ==
    \A p \in Procs :
        (req[p].route = "webhook" /\ Wrote(req[p], "f1DataHash"))
            => /\ Truthy(req[p].yotoResult.cardId)
               /\ req[p].yotoResult.status # "failed"

\* C5 as stated: a refresh that ends in a failure response has written nothing.
C5_Original ==
    \A p \in Procs :
        (Done(p) /\ req[p].route \in RefreshRoutes /\ Failed(req[p]))
            => \A k \in DOMAIN EmptyStore : ~Wrote(req[p], k)

\* C5 as amended: a refresh that ends in a failure response has written none of
\* cardId, title and hash; the tokens are written only by the webhook, whose token
\* exchange had succeeded before the failure.
C5_NoIdentityWriteOnFailure ==
    \A p \in Procs :
        LET r == req[p] IN
        (Done(p) /\ r.route \in RefreshRoutes /\ Failed(r))
            => /\ \A k \in IdentityKeys \cup {"f1MyoCardId"} : ~Wrote(r, k)
               /\ Wrote(r, "tokens")
                    => /\ r.route = "webhook"
                       /\ Called(r, "tokenRefresh")
                       /\ getAccessToken(config) = r.accessToken

\* C5 witness: a webhook run rotated the tokens, reached createOrUpdateTTSPlaylist and
\* ended in a 500.
C5_Witness ==
    \E p \in Procs :
        /\ Done(p) /\ req[p].route = "webhook"
        /\ req[p].response.status = 500
        /\ Called(req[p], "createOrUpdateTTSPlaylist")
        /\ Wrote(req[p], "tokens")

\* C6 as stated: no refresh has written cardId, title or hash before its deployment
\* step has finished.
C6_Original ==
    \A p \in Procs :
        (req[p].route \in RefreshRoutes /\ ~Done(p)) => ~WroteIdentity(req[p])

\* C6 as amended: cardId and title are read before createOrUpdateTTSPlaylist is
\* called; cardId, title and hash are written only after it has returned and before
\* deployToAllDevices is called.
C6_WritesBetweenReconcileAndDeploy ==
    \A p \in Procs :
        LET r == req[p] IN
        r.route \in RefreshRoutes =>
            /\ pc[p] \in {"tokenRefresh", "fetchWorker", "icon", "flag", "cover", "reconcile"}
                  => ~WroteIdentity(r)
            /\ pc[p] = "reconcile"
                  => /\ r.existingCardId = getStoredCardId(config)
                     /\ Truthy(getStoredPlaylistTitle(config))
                           => r.title = getStoredPlaylistTitle(config)
            /\ \A i \in 1..Len(r.log) :
                  IsIdentityWrite(r.log[i])
                     => /\ \E j \in 1..(i - 1) : r.log[j] = "call:createOrUpdateTTSPlaylist"
                        /\ \A j \in 1..(i - 1) : r.log[j] # "call:deployToAllDevices"

\* C6 witness: the deployment of a refresh is in flight and cardId is already written.
C6_Witness ==
    \E p \in Procs :
        /\ pc[p] = "deploy"
        /\ req[p].route \in RefreshRoutes
        /\ Wrote(req[p], "f1CardId")

\* C7 as stated: a webhook run has written all of cardId, title and hash or none.
C7_AllOrNone ==
    \A p \in Procs :
        req[p].route = "webhook"
            => \/ \A k \in IdentityKeys : Wrote(req[p], k)
               \/ \A k \in IdentityKeys : ~Wrote(req[p], k)

\* C8 as stated: cardId is stored exactly when a card creation has completed.
C8_Original == Truthy(getStoredCardId(config)) <=> cards > 0

\* C8 as amended: cardId is stored exactly when a card creation has returned a cardId
\* since the last logout.
C8_CardIdIffCreatedSinceLogout == Truthy(getStoredCardId(config)) <=> liveCard

\* C8 witness: a card was created and a logout has removed its id.
C8_Witness ==
    \E p \in Procs :
        /\ Done(p) /\ req[p].route = "logout"
        /\ cards > 0
        /\ ~Truthy(getStoredCardId(config))

\* C9: deployment aggregation. For a non-empty listing the fan-out issues one deploy
\* per device, returns a summary (never throws) and counts the accepted devices as
\* success, the others as failed and all of them as total.
C9_DeploymentAggregation ==
    \A p \in Procs :
        LET r == req[p]
            d == r.response.deviceDeployment
            n == Len(r.devices)
            ok == {i \in 1..n : r.devices[i].id \in r.accepted}
        IN  (Done(p) /\ r.listing = "listed" /\ n > 0)
              => /\ r.response.status = 200
                 /\ ~d.isNull /\ ~d.error
                 /\ d.total = n
                 /\ d.success = Cardinality(ok)
                 /\ d.failed = n - Cardinality(ok)
                 /\ d.success + d.failed = d.total
                 /\ Len(d.calls) = n
                 /\ \A i \in 1..n :
                       Cardinality({j \in 1..Len(d.calls) : d.calls[j] = r.devices[i].id}) = 1

\* C9 witness: three devices, the second rejected, summary 2 / 1 / 3.
C9_Witness ==
    \E p \in Procs :
        LET r == req[p]
            d == r.response.deviceDeployment
        IN  /\ Done(p) /\ r.listing = "listed"
            /\ Len(r.devices) = 3
            /\ r.accepted = {r.devices[1].id, r.devices[3].id}
            /\ d.success = 2 /\ d.failed = 1 /\ d.total = 3

\* C10: zero-device case. For an empty listing the fan-out returns the summary
\* 0 / 0 / 0, it does not throw and issues no deploy.
C10_ZeroDevices ==
    \A p \in Procs :
        LET r == req[p]
            d == r.response.deviceDeployment
        IN  (Done(p) /\ r.listing = "listed" /\ Len(r.devices) = 0)
              => /\ r.response.status = 200
                 /\ ~d.isNull /\ ~d.error
                 /\ d.success = 0 /\ d.failed = 0 /\ d.total = 0
                 /\ d.calls = <<>>

\* C10 witness: a deployment found no device.
C10_Witness ==
    \E p \in Procs :
        /\ Done(p) /\ req[p].listing = "listed" /\ req[p].devices = <<>>
        /\ Called(req[p], "deployToAllDevices")
        /\ req[p].response.deviceDeployment.total = 0

\* C11 as stated: when the device enumeration of a deployment threw, the operation
\* that deployed reports no deployment summary to its caller.
C11_Original ==
    \A p \in Procs :
        (Done(p) /\ req[p].listing = "threw") => req[p].response.deviceDeployment.isNull

\* C11 as amended: when the device enumeration threw, no deploy was issued and the
\* request still answers success; the refresh routes report no deployment summary
\* (null), send-to-yoto reports the summary 0 / 0 / 0 carrying the error, which a
\* summary of a listing that returned never carries.
C11_EnumerationFailure ==
    \A p \in Procs :
        LET r == req[p]
            d == r.response.deviceDeployment
        IN  /\ (Done(p) /\ r.listing = "threw")
               => /\ Called(r, "deployToAllDevices")
                  /\ r.response.status = 200 /\ r.response.success
                  /\ d.calls = <<>>
                  /\ r.route \in RefreshRoutes => d.isNull
                  /\ r.route = "send"
                       => /\ ~d.isNull /\ d.error
                          /\ d.success = 0 /\ d.failed = 0 /\ d.total = 0
            /\ (Done(p) /\ r.listing = "listed") => (~d.isNull /\ ~d.error)

\* C11 witness: the enumeration threw under send-to-yoto, which answered with the
\* summary 0 / 0 / 0 carrying the error.
C11_Witness ==
    \E p \in Procs :
        /\ Done(p) /\ req[p].route = "send" /\ req[p].listing = "threw"
        /\ req[p].response.deviceDeployment.error
        /\ req[p].response.deviceDeployment.total = 0

\* The pipeline calls of a refresh in the order the routes issue them; the flag
\* upload is issued only for a snapshot that has a country flag.
PipelineOrder ==
    <<"call:uploadCardIcon", "call:uploadCountryFlagIcon", "call:uploadCardCoverImage",
      "call:buildF1Chapters", "call:createOrUpdateTTSPlaylist", "call:deployToAllDevices">>
PipelineOrderNoFlag ==
    <<"call:uploadCardIcon", "call:uploadCardCoverImage",
      "call:buildF1Chapters", "call:createOrUpdateTTSPlaylist", "call:deployToAllDevices">>
IsPipelineCall(e) == \E c \in PipelineCalls : e = "call:" \o c
PipelineLog(r) == SelectSeq(r.log, IsPipelineCall)
IsPrefix(s, t) == Len(s) <= Len(t) /\ \A i \in 1..Len(s) : s[i] = t[i]
\* The call a handler suspended at an await of the pipeline is waiting for.
AwaitedCall(position) ==
    CASE position = "icon" -> "call:uploadCardIcon"
      [] position = "flag" -> "call:uploadCountryFlagIcon"
      [] position = "cover" -> "call:uploadCardCoverImage"
      [] position = "reconcile" -> "call:createOrUpdateTTSPlaylist"
      [] position = "deploy" -> "call:deployToAllDevices"
      [] OTHER -> "call:fetchWorker"

\* C12: step order. The pipeline calls a refresh has issued are an initial part of
\* icon upload, (flag upload,) cover upload, chapter building, create-or-update,
\* deployment, each issued once; while the handler waits for a step that step is the
\* last one issued, so a step starts only after the previous one has returned; and
\* after a step has thrown the handler has ended without issuing a later step.
C12_StepOrder ==
    \A p \in Procs :
        LET r == req[p]
            calls == PipelineLog(r)
        IN  r.route \in RefreshRoutes =>
              /\ IsPrefix(calls, PipelineOrder) \/ IsPrefix(calls, PipelineOrderNoFlag)
              /\ pc[p] \in {"icon", "flag", "cover", "reconcile", "deploy"}
                    => /\ calls # <<>>
                       /\ calls[Len(calls)] = AwaitedCall(pc[p])
              /\ pc[p] \in {"tokenRefresh", "fetchWorker"} => calls = <<>>
              /\ r.thrown # Undefined
                    => /\ Done(p)
                       /\ Failed(r)
                       /\ ~Called(r, "deployToAllDevices")
                       /\ r.thrown = TypeError.message => calls = <<>>
                       /\ r.thrown # TypeError.message
                             => calls[Len(calls)] = "call:createOrUpdateTTSPlaylist"

\* C12 witness: a refresh has issued all six steps, up to the deployment, and ended.
C12_Witness ==
    \E p \in Procs :
        /\ Done(p) /\ req[p].route \in RefreshRoutes
        /\ PipelineLog(req[p]) = PipelineOrder

IsCall(e) ==
    \E c \in PipelineCalls \cup {"tokenRefresh", "fetchWorker"} : e = "call:" \o c

\* C13 as stated: a refresh that answers with a configuration error (WEBHOOK_SECRET
\* or CLOUDFLARE_WORKER_URL missing) has made no network call before: no token
\* refresh exchange, no worker fetch, no upload.
C13_ConfigFailFast ==
    \A p \in Procs :
        (Done(p) /\ req[p].route \in RefreshRoutes /\ req[p].response.configError)
            => SelectSeq(req[p].log, IsCall) = <<>>

ThrewAuth(r) == r.thrown = AuthError.message
ThrewOther(r) == r.thrown # Undefined /\ r.thrown # AuthError.message

Count(r, e) == Cardinality({i \in 1..Len(r.log) : r.log[i] = e})

\* C15: at most one token refresh. A refresh invocation issues the token refresh
\* exchange at most once, only in the webhook route and before anything else, and
\* issues every other call at most once; when a later step throws an authentication
\* error the invocation ends in a failure response with that step as its last call:
\* no second exchange, no retry.
C15_SingleTokenRefresh ==
    \A p \in Procs :
        LET r == req[p] IN
        r.route \in RefreshRoutes =>
            /\ Count(r, "call:tokenRefresh") <= 1
            /\ Called(r, "tokenRefresh")
                  => (r.route = "webhook" /\ r.log[1] = "call:tokenRefresh")
            /\ \A c \in PipelineCalls \cup {"fetchWorker"} : Count(r, "call:" \o c) <= 1
            /\ ThrewAuth(r)
                  => /\ Done(p) /\ Failed(r)
                     /\ r.log[Len(r.log)] = "call:createOrUpdateTTSPlaylist"

\* C15 witness: a webhook run refreshed its token, createOrUpdateTTSPlaylist threw an
\* authentication error afterwards and the run ended in a failure response.
C15_Witness ==
    \E p \in Procs :
        /\ Done(p) /\ req[p].route = "webhook"
        /\ Count(req[p], "call:tokenRefresh") = 1
        /\ Wrote(req[p], "tokens")
        /\ ThrewAuth(req[p])
        /\ Failed(req[p])

\* The worker fetch of the request has returned and gave no race data: it failed
\* (unreachable, timed out, non-OK) or its payload has no race.
NoRaceData(p) ==
    /\ req[p].route \in RefreshRoutes
    /\ Called(req[p], "fetchWorker")
    /\ pc[p] # "fetchWorker"
    /\ req[p].raceName = Undefined

\* C16 as stated: a refresh whose worker fetch gave no race data ends in a failure
\* response without an upload, a create-or-update, a deployment or a write of cardId,
\* title or hash.
C16_Original ==
    \A p \in Procs :
        NoRaceData(p)
            => /\ Done(p) /\ Failed(req[p])
               /\ PipelineLog(req[p]) = <<>>
               /\ ~WroteIdentity(req[p])

\* C16 as amended: a refresh whose worker fetch gave no race data ends without an
\* upload, a create-or-update, a deployment or a write of cardId, title or hash; it
\* answers 502 when the fetch failed and 500 when the payload has no race, except that
\* a webhook run whose payload carries the stored hash answers success with skipped
\* before it looks at the race.
C16_UpstreamDataFailure ==
    \A p \in Procs :
        LET r == req[p] IN
        NoRaceData(p)
            => /\ Done(p)
               /\ PipelineLog(r) = <<>>
               /\ ~WroteIdentity(r)
               /\ \/ r.response.status = 502 /\ r.thrown = Undefined
                  \/ r.response.status = 500 /\ r.thrown = TypeError.message
                  \/ /\ r.route = "webhook"
                     /\ r.response.success /\ r.response.skipped
                     /\ Unchanged(config, r.newDataHash)

\* C16 witness: the payload of a manual refresh had no race and the refresh ended in
\* a 500.
C16_Witness ==
    \E p \in Procs :
        /\ NoRaceData(p) /\ Done(p)
        /\ req[p].route = "manual"
        /\ req[p].thrown = TypeError.message
        /\ req[p].response.status = 500

\* C17 as stated: a refresh that found no stored cardId passes the title derived
\* from its own snapshot, 'F1: <race name>', to createOrUpdateTTSPlaylist, and that is
\* the title stored when the card has been created.
C17_FreshTitleOnCreate ==
    \A p \in Procs :
        LET r == req[p] IN
        (r.route \in RefreshRoutes /\ Called(r, "createOrUpdateTTSPlaylist")
            /\ ~Truthy(r.existingCardId))
            => /\ r.title = FreshTitle(r.raceName)
               /\ Wrote(r, "f1PlaylistTitle")
                     => getStoredPlaylistTitle(config) = FreshTitle(r.raceName)

CardRoutes == RefreshRoutes \cup {"send"}

WebhookReconcileStep(p) ==
    /\ req[p].route = "webhook"
    /\ pc[p] = "reconcile"
    /\ pc'[p] # "reconcile"
\* What the manual route stores at the same point, from the same store, with the
\* same title and the same result of createOrUpdateTTSPlaylist.
ManualStoreAt(p) == ManualStore(Open(config), req'[p].yotoResult, req[p].title)
\* What the step appended to the log of the request.
StepLog(p) == SubSeq(req'[p].log, Len(req[p].log) + 1, Len(req'[p].log))
IsCardOrTitleWrite(e) == e \in {"write:f1CardId", "write:f1PlaylistTitle"}

\* C20 as stated: when createOrUpdateTTSPlaylist returns to the webhook route, the
\* step leaves cardId, title and hash as the manual route would leave them from the
\* same store with the same result.
C20_Original ==
    [][\A p \in Procs :
          WebhookReconcileStep(p)
             => \A k \in IdentityKeys : config'[k] = ManualStoreAt(p).data[k]]_vars

\* C20 as amended: both routes pass the stored cardId and the same title to
\* createOrUpdateTTSPlaylist, and when it returns the webhook route makes the writes
\* of cardId and title the manual route would make and deploys when the manual route
\* would; but the webhook route also stores the hash of its payload, unless the step
\* threw, and the manual route never writes the hash.
C20_SameReconcileDifferentHash ==
    [][\A p \in Procs :
          /\ (req[p].route \in RefreshRoutes /\ pc[p] = "cover" /\ pc'[p] = "reconcile")
                => /\ req'[p].existingCardId = getStoredCardId(config)
                   /\ req'[p].title =
                        RefreshTitle(getStoredPlaylistTitle(config), req[p].raceName)
          /\ WebhookReconcileStep(p)
                => /\ config'.f1CardId = ManualStoreAt(p).data.f1CardId
                   /\ config'.f1PlaylistTitle = ManualStoreAt(p).data.f1PlaylistTitle
                   /\ SelectSeq(StepLog(p), IsCardOrTitleWrite) = ManualStoreAt(p).log
                   /\ pc'[p] = "deploy" <=> ShouldDeploy(req'[p].yotoResult)
                   /\ config'.f1DataHash =
                        IF Truthy(req[p].newDataHash) /\ req'[p].thrown = Undefined
                        THEN req[p].newDataHash ELSE config.f1DataHash
          /\ req[p].route = "manual" => config'.f1DataHash = config.f1DataHash]_vars

\* C20 witness: a webhook run has updated the card and written cardId, title and the
\* hash of its payload.
C20_Witness ==
    \E p \in Procs :
        /\ Succeeded(p) /\ req[p].route = "webhook"
        /\ Wrote(req[p], "f1CardId") /\ Wrote(req[p], "f1PlaylistTitle")
        /\ Wrote(req[p], "f1DataHash")
        /\ getStoredDataHash(config) = req[p].newDataHash

-----------------------------------------------------------------------------
(* Chapter and track keys (createTextToSpeechPlaylist) *)

\* Chapters a submitted chapter list holds at most, and tracks a chapter holds at most.
MaxChapters == 100
MaxTracks == 2

\* A JS string of digits is the sequence of its characters.
DigitChars == <<"0", "1", "2", "3", "4", "5", "6", "7", "8", "9">>
\* The UTF-16 code unit of a digit character.
CodeUnit(c) == 47 + CHOOSE d \in 1..10 : DigitChars[d] = c

\* String(n) for a non-negative integer.
RECURSIVE String(_)
String(n) ==
    IF n < 10 THEN <<DigitChars[n + 1]>>
    ELSE Append(String(n \div 10), DigitChars[(n % 10) + 1])

\* Mutant: no padding.
padStartNone(s, targetLength, padString) == s

\* s.padStart(targetLength, padString) for a one-character padString: a string
\* already that long is returned as it is.
RECURSIVE padStart(_, _, _)
padStart(s, targetLength, padString) ==
    IF Len(s) >= targetLength THEN s
    ELSE padStart(<<padString>> \o s, targetLength, padString)

\* a < b on JS strings: by code unit, a proper prefix first.
StringLess(a, b) ==
    \E k \in 1..Len(b) :
        /\ k <= Len(a) + 1
        /\ \A i \in 1..(k - 1) : a[i] = b[i]
        /\ \/ k = Len(a) + 1
           \/ CodeUnit(a[k]) < CodeUnit(b[k])

\* The target length of the keys' padStart.
KeyWidth == 2

\* String(index + 1).padStart(2, '0')
PositionKey(index) == padStart(String(index + 1), KeyWidth, "0")

\* chapters.map: chapter and track objects in list order, indexes from 0.
PlaylistContent(chapters) ==
    [c \in 1..Len(chapters) |->
        [key |-> PositionKey(c - 1),
         tracks |-> [t \in 1..chapters[c] |-> [key |-> PositionKey(t - 1)]]]]

\* Chapter lists: a list is given by the number of tracks of each of its chapters.
ChapterLists ==
    {[c \in 1..n |-> t] : n \in 0..MaxChapters, t \in 0..MaxTracks}

KeyInit ==
    /\ F1_DATA = EmptyNamespace
    /\ config = EmptyStore
    /\ cards = 0
    /\ liveCard = FALSE
    /\ pc = [p \in Procs |-> "idle"]
    /\ req = [p \in Procs |-> [route |-> "none", chapters |-> <<>>, content |-> <<>>]]

\* createTextToSpeechPlaylist builds the content structure of a chapter list.
BuildContent(p) ==
    /\ \E chapters \in ChapterLists :
          req' = [req EXCEPT ![p] = [route |-> "tts", chapters |-> chapters,
                                     content |-> PlaylistContent(chapters)]]
    /\ pc' = [pc EXCEPT ![p] = "done"]
    /\ UNCHANGED <<config, cards, liveCard, F1_DATA>>

KeyNext == \E p \in SeqProcs : BuildContent(p)

KeySpec == KeyInit /\ [][KeyNext]_vars

\* The number a string of digits denotes.
RECURSIVE Decimal(_)
Decimal(s) ==
    IF s = <<>> THEN 0
    ELSE 10 * Decimal(SubSeq(s, 1, Len(s) - 1)) + (CodeUnit(s[Len(s)]) - 48)

\* The key sequences of the levels of a content structure: its chapters, and the
\* tracks of each chapter.
KeyLevels(content) ==
    {[i \in 1..Len(content) |-> content[i].key]}
        \cup {[j \in 1..Len(content[i].tracks) |-> content[i].tracks[j].key] :
                i \in 1..Len(content)}

BuiltLevels == UNION {KeyLevels(req[p].content) : p \in {q \in Procs : req[q].route = "tts"}}

\* Positions two digits can number: the last one whose decimal fits the width.
TwoDigitPositions ==
    CHOOSE n \in 1..(MaxChapters + 1) :
        Len(String(n)) <= KeyWidth /\ Len(String(n + 1)) > KeyWidth

-----------------------------------------------------------------------------
(* Narration builder (buildF1Chapters) *)

\* Race snapshots the builder is given.
RaceSnapshots ==
    [name : RaceNames, year : {"2026"}, location : {"Monte Carlo", "Monza"},
     date : {"Sunday, June 7"}, time : {"03:00 PM"},
     circuit : {"Circuit de Monaco"}]

\* Mutant: the chapter is titled with the stored playlist title.
buildF1ChaptersTitled(raceData) ==
    <<[title |-> getStoredPlaylistTitle(config),
       icon |-> Undefined,
       tracks |-> <<[title |-> raceData.name,
                     text |-> "Hello Formula 1 fans! Let me tell you about the next race in the "
                                \o raceData.year \o " season. The next race is the "
                                \o raceData.name \o ", taking place in "
                                \o raceData.location \o ". The race will be held on "
                                \o raceData.date \o ", at " \o raceData.time
                                \o ". Get ready for an exciting race at "
                                \o raceData.circuit \o "!",
                     icon |-> Undefined]>>]>>

\* One chapter with one track; the track's text is the template filled from the
\* fields of raceData.
buildF1Chapters(raceData) ==
    <<[title |-> "Next F1 Race",
       icon |-> Undefined,
       tracks |-> <<[title |-> raceData.name,
                     text |-> "Hello Formula 1 fans! Let me tell you about the next race in the "
                                \o raceData.year \o " season. The next race is the "
                                \o raceData.name \o ", taking place in "
                                \o raceData.location \o ". The race will be held on "
                                \o raceData.date \o ", at " \o raceData.time
                                \o ". Get ready for an exciting race at "
                                \o raceData.circuit \o "!",
                     icon |-> Undefined]>>]>>

NoNarration == [route |-> "none", raceData |-> Undefined, identity |-> EmptyStore,
                earlier |-> 0, chapters |-> <<>>]

BuilderInit ==
    /\ F1_DATA = EmptyNamespace
    /\ config = EmptyStore
    /\ cards = 0
    /\ liveCard = FALSE
    /\ pc = [p \in Procs |-> "idle"]
    /\ req = [p \in Procs |-> NoNarration]

\* Builder invocations a run makes at most.
MaxInvocations == 3

\* One invocation of the builder; `identity` and `earlier` record the Identity
\* Record at the time of the invocation and the invocations made before it.
BuildNarration(p) ==
    /\ cards < MaxInvocations
    /\ \E raceData \in RaceSnapshots :
          req' = [req EXCEPT ![p] = [route |-> "narration", raceData |-> raceData,
                                     identity |-> config, earlier |-> cards,
                                     chapters |-> buildF1Chapters(raceData)]]
    /\ pc' = [pc EXCEPT ![p] = "done"]
    /\ cards' = cards + 1
    /\ UNCHANGED <<config, liveCard, F1_DATA>>

\* Between invocations the Identity Record is rewritten.
RewriteIdentity(p) ==
    /\ \E cardId \in {Undefined, CardIdOf(1)}, title \in {FreshTitle(n) : n \in RaceNames} :
          config' = storePlaylistTitle(storeCardId(Open(config), cardId), title).data
    /\ UNCHANGED <<cards, liveCard, pc, req, F1_DATA>>

BuilderNext == \E p \in Procs : BuildNarration(p) \/ RewriteIdentity(p)

BuilderSpec == BuilderInit /\ [][BuilderNext]_vars

Narrated(p) == req[p].route = "narration"

-----------------------------------------------------------------------------
(* Partial snapshots *)

\* The refresh in slot p holds the snapshot it extracted and has not built the
\* chapters yet.
HoldsSnapshot(p) == req[p].route \in RefreshRoutes /\ pc[p] \in {"icon", "flag", "cover"}

\* Some part of the snapshot a refresh holds was missing from the payload.
PartialSnapshot(r) == r.sessions = EmptyList \/ r.weather = Undefined \/ ~r.countryFlag

\* C23: a refresh whose payload has a race but no sessions, no weather or no country
\* flag goes on with sessions = empty list and weather = null, attempts no
\* country-flag upload when the flag is missing, throws nothing on the missing
\* part, and reaches createOrUpdateTTSPlaylist once its uploads have returned.
C23_PartialSnapshot ==
    \A p \in Procs :
        LET r == req[p]
        IN  /\ HoldsSnapshot(p) =>
                 /\ r.sessions \in {EmptyList, "sessions"}
                 /\ r.weather \in {Undefined, "weather"}
                 /\ r.thrown = Undefined
                 /\ ~r.countryFlag =>
                       (pc[p] # "flag" /\ ~Called(r, "uploadCountryFlagIcon"))
            /\ (r.route \in RefreshRoutes /\ r.thrown = TypeError.message) =>
                  r.raceName = Undefined
            /\ (r.route \in RefreshRoutes /\ Called(r, "uploadCardIcon") /\ ~HoldsSnapshot(p)) =>
                  Called(r, "createOrUpdateTTSPlaylist")

\* A refresh holds a snapshot without sessions, weather and flag and has its cover
\* upload, the last step before the chapters are built, under way.
C23_Witness ==
    \E p \in Procs :
        /\ HoldsSnapshot(p) /\ pc[p] = "cover"
        /\ req[p].sessions = EmptyList
        /\ req[p].weather = Undefined
        /\ ~req[p].countryFlag

-----------------------------------------------------------------------------
(* Webhook secret *)

\* The webhook's POST and GET up to their first await, between logins, logouts and
\* writes of the Identity Record.
GateHandle(p) ==
    \/ Login(p)
    \/ Logout(p)
    \/ RewriteIdentity(p)
    \/ WebhookStart(p)
    \/ WebhookGet(p)

GateNext == \E p \in SeqProcs : GateHandle(p)

GateSpec == Init /\ [][GateNext]_vars

WebhookRoutes == {"webhook", "webhookGet"}

\* The X-Webhook-Secret header of the request is missing or differs from the
\* configured secret.
BadSecret(r) == ~Truthy(r.providedSecret) \/ r.providedSecret # r.webhookSecret

\* C24: a POST or GET to the webhook whose X-Webhook-Secret header is missing or
\* differs from WEBHOOK_SECRET is answered at once with 401, or 500 when
\* WEBHOOK_SECRET is unset; it reads no access token, refreshes no token, makes no
\* network call and writes nothing to the Identity Record.
C24_SecretGate ==
    \A p \in Procs :
        LET r == req[p]
        IN  (r.route \in WebhookRoutes /\ BadSecret(r)) =>
                /\ Done(p)
                /\ r.response.status = IF Truthy(r.webhookSecret) THEN 401 ELSE 500
                /\ ~r.response.success
                /\ ~r.tokenRead
                /\ r.accessToken = Undefined
                /\ r.log = <<>>

\* A POST with a wrong secret has been answered while tokens with a refresh token
\* and a card are stored.
C24_Witness ==
    \E p \in Procs :
        /\ Done(p) /\ req[p].route = "webhook"
        /\ req[p].providedSecret = "wrong" /\ Truthy(req[p].webhookSecret)
        /\ Truthy(getStoredTokens(config).refreshToken)
        /\ Truthy(getStoredCardId(config))

-----------------------------------------------------------------------------
(* Cloudflare worker *)

\* What the OpenF1 endpoints answer to the lookups of one run of fetchF1Data: an
\* answer that is not OK, a fetch that throws, an empty list, or a list; a list of
\* sessions may lack the session key in its first element.
Upstreams ==
    [meetings : {"not-ok", "threw", EmptyList, "Monaco GP"},
     nextYear : {"not-ok", "threw", EmptyList, "Monza GP"},
     sessions : {"not-ok", "threw", EmptyList, "sessions", "sessions-without-key"},
     weather : {"not-ok", "threw", EmptyList, "weather"}]

NoUpstream ==
    [meetings |-> Undefined, nextYear |-> Undefined, sessions |-> Undefined,
     weather |-> Undefined]

\* getNextRace: the first meeting of the current year, else of the next year; its
\* catch rethrows.
getNextRace(upstream) ==
    CASE upstream.meetings = "not-ok" ->
            [threw |-> TRUE, message |-> "Failed to fetch race data",
             race |-> Undefined, calls |-> <<"call:meetings">>]
      [] upstream.meetings = "threw" ->
            [threw |-> TRUE, message |-> "The operation timed out",
             race |-> Undefined, calls |-> <<"call:meetings">>]
      [] upstream.meetings = EmptyList ->
            CASE upstream.nextYear \in {"not-ok", EmptyList} ->
                    [threw |-> TRUE, message |-> "No upcoming races found",
                     race |-> Undefined,
                     calls |-> <<"call:meetings", "call:meetingsNextYear">>]
              [] upstream.nextYear = "threw" ->
                    [threw |-> TRUE, message |-> "The operation timed out",
                     race |-> Undefined,
                     calls |-> <<"call:meetings", "call:meetingsNextYear">>]
              [] OTHER ->
                    [threw |-> FALSE, message |-> Undefined,
                     race |-> upstream.nextYear,
                     calls |-> <<"call:meetings", "call:meetingsNextYear">>]
      [] OTHER ->
            [threw |-> FALSE, message |-> Undefined, race |-> upstream.meetings,
             calls |-> <<"call:meetings">>]

\* Mutant: a failed sessions lookup is rethrown.
getUpcomingSessionsStrict(answer) == answer

\* getUpcomingSessions: the sessions of the meeting, [] when the lookup fails.
getUpcomingSessions(answer) ==
    IF answer \in {"not-ok", "threw", EmptyList} THEN EmptyList ELSE answer

\* getSessionWeather: the latest reading, null when the lookup fails.
getSessionWeather(answer) ==
    IF answer \in {"not-ok", "threw", EmptyList} THEN Undefined ELSE answer

\* sessions.length > 0 && sessions[0].sessionKey
HasSessionKey(sessions) == sessions # EmptyList /\ sessions # "sessions-without-key"

\* fetchF1Data: the playlist data it returns or the error it throws, and the
\* lookups it made.
fetchF1Data(upstream, lastUpdated) ==
    LET next == getNextRace(upstream)
        sessions == getUpcomingSessions(upstream.sessions)
        weather == IF HasSessionKey(sessions) THEN getSessionWeather(upstream.weather)
                   ELSE Undefined
    IN  IF next.threw
        THEN [threw |-> TRUE, message |-> next.message, playlistData |-> Undefined,
              calls |-> next.calls]
        ELSE [threw |-> FALSE, message |-> Undefined,
              playlistData |-> [race |-> next.race, sessions |-> sessions,
                                weather |-> weather, lastUpdated |-> lastUpdated],
              calls |-> next.calls \o <<"call:sessions">>
                          \o IF HasSessionKey(sessions) THEN <<"call:weather">> ELSE <<>>]

\* The times at which a run of fetchF1Data can end.
Clock == {"06:00", "06:01"}

\* The locals of a worker handler when its call of fetchF1Data has ended.
Fetched(r, upstream, lastUpdated) ==
    LET result == fetchF1Data(upstream, lastUpdated)
    IN  [r EXCEPT !.upstream = upstream, !.fetched = ~result.threw,
                  !.playlistData = result.playlistData, !.thrown = result.message,
                  !.log = r.log \o result.calls]

\* JSON.stringify(playlistData)
JSONstringify(playlistData) ==
    "{race:" \o playlistData.race \o ",sessions:" \o playlistData.sessions
        \o ",weather:" \o playlistData.weather
        \o ",lastUpdated:" \o playlistData.lastUpdated \o "}"

\* env.F1_DATA.get(key) and env.F1_DATA.put(key, value)
KVget(namespace, key) == namespace[key]
KVput(namespace, key, value) == [namespace EXCEPT ![key] = value]

NoWorkerResponse == [status |-> 0, body |-> Undefined]

\* The locals of a worker handler before its first statement; `threw` tells that
\* the handler ended by throwing.
NewWorkerRequest(route) ==
    [route |-> route, cachedData |-> Undefined, upstream |-> NoUpstream,
     fetched |-> FALSE, playlistData |-> Undefined, thrown |-> Undefined,
     threw |-> FALSE,
     response |-> NoWorkerResponse, log |-> <<>>]

WorkerInit ==
    /\ F1_DATA = EmptyNamespace
    /\ config = EmptyStore
    /\ cards = 0
    /\ liveCard = FALSE
    /\ pc = [p \in Procs |-> "idle"]
    /\ req = [p \in Procs |-> NewWorkerRequest("none")]

\* The worker handler in slot p moves to position `next` with locals r, having
\* left the namespace as `namespace` and issued `calls`.
WorkerStep(p, next, r, namespace, calls) ==
    /\ pc' = [pc EXCEPT ![p] = next]
    /\ req' = [req EXCEPT ![p] = [r EXCEPT !.log = r.log \o calls]]
    /\ F1_DATA' = namespace
    /\ UNCHANGED <<config, cards, liveCard>>

WorkerRespond(r, status, body) == [r EXCEPT !.response = [status |-> status, body |-> body]]

\* The cron trigger fires.
ScheduledStart(p) ==
    /\ Free(p)
    /\ WorkerStep(p, "fetchF1Data", NewWorkerRequest("scheduled"), F1_DATA,
                  <<"call:fetchF1Data">>)

\* Mutant: a failed refresh drops the stale entry.
ScheduledFetchReturnClearing(p) ==
    /\ pc[p] = "fetchF1Data" /\ req[p].route = "scheduled"
    /\ \E upstream \in Upstreams, lastUpdated \in Clock :
          LET r == Fetched(req[p], upstream, lastUpdated)
          IN  IF r.fetched
              THEN WorkerStep(p, "put", r, F1_DATA, <<"call:put">>)
              ELSE WorkerStep(p, "done", r, KVput(F1_DATA, CACHE_KEY, Undefined), <<>>)

ScheduledFetchReturn(p) ==
    /\ pc[p] = "fetchF1Data" /\ req[p].route = "scheduled"
    /\ \E upstream \in Upstreams, lastUpdated \in Clock :
          LET r == Fetched(req[p], upstream, lastUpdated)
          IN  IF r.fetched
              THEN WorkerStep(p, "put", r, F1_DATA, <<"call:put">>)
              ELSE \* fetchF1Data throws: the catch logs the error and does not rethrow
                   WorkerStep(p, "done", r, F1_DATA, <<>>)

ScheduledPutReturn(p) ==
    /\ pc[p] = "put" /\ req[p].route = "scheduled"
    /\ WorkerStep(p, "done", req[p],
                  KVput(F1_DATA, CACHE_KEY, JSONstringify(req[p].playlistData)), <<>>)

\* GET /playlist arrives.
PlaylistStart(p) ==
    /\ Free(p)
    /\ WorkerStep(p, "get", NewWorkerRequest("playlist"), F1_DATA, <<"call:get">>)

\* Mutant: the cache is refreshed on every request and the fresh data answered.
PlaylistGetReturnThrough(p) ==
    /\ pc[p] = "get" /\ req[p].route = "playlist"
    /\ WorkerStep(p, "fetchF1Data",
                  [req[p] EXCEPT !.cachedData = KVget(F1_DATA, CACHE_KEY)],
                  F1_DATA, <<"call:fetchF1Data">>)

PlaylistGetReturn(p) ==
    /\ pc[p] = "get" /\ req[p].route = "playlist"
    /\ LET cachedData == KVget(F1_DATA, CACHE_KEY)
           r == [req[p] EXCEPT !.cachedData = cachedData]
       IN  IF Truthy(cachedData)
           THEN WorkerStep(p, "done", WorkerRespond(r, 200, cachedData), F1_DATA, <<>>)
           ELSE WorkerStep(p, "fetchF1Data", r, F1_DATA, <<"call:fetchF1Data">>)

PlaylistFetchReturn(p) ==
    /\ pc[p] = "fetchF1Data" /\ req[p].route = "playlist"
    /\ \E upstream \in Upstreams, lastUpdated \in Clock :
          LET r == Fetched(req[p], upstream, lastUpdated)
          IN  IF r.fetched
              THEN WorkerStep(p, "put", r, F1_DATA, <<"call:put">>)
              ELSE \* fetchF1Data throws: 'Failed to fetch playlist data'
                   WorkerStep(p, "done", WorkerRespond(r, 500, r.thrown), F1_DATA, <<>>)

PlaylistPutReturn(p) ==
    /\ pc[p] = "put" /\ req[p].route = "playlist"
    /\ WorkerStep(p, "done",
                  WorkerRespond(req[p], 200, JSONstringify(req[p].playlistData)),
                  KVput(F1_DATA, CACHE_KEY, JSONstringify(req[p].playlistData)), <<>>)

\* POST /refresh arrives.
RefreshStart(p) ==
    /\ Free(p)
    /\ WorkerStep(p, "fetchF1Data", NewWorkerRequest("refresh"), F1_DATA,
                  <<"call:fetchF1Data">>)

\* Mutant: like the cron handler, the route swallows the error of a failed fetch.
RefreshFetchReturnQuiet(p) ==
    /\ pc[p] = "fetchF1Data" /\ req[p].route = "refresh"
    /\ \E upstream \in Upstreams, lastUpdated \in Clock :
          LET r == Fetched(req[p], upstream, lastUpdated)
          IN  IF r.fetched
              THEN WorkerStep(p, "put", r, F1_DATA, <<"call:put">>)
              ELSE WorkerStep(p, "done", WorkerRespond(r, 200, "{success:true}"),
                              F1_DATA, <<>>)

RefreshFetchReturn(p) ==
    /\ pc[p] = "fetchF1Data" /\ req[p].route = "refresh"
    /\ \E upstream \in Upstreams, lastUpdated \in Clock :
          LET r == Fetched(req[p], upstream, lastUpdated)
          IN  IF r.fetched
              THEN WorkerStep(p, "put", r, F1_DATA, <<"call:put">>)
              ELSE \* fetchF1Data throws: 'Failed to refresh data'
                   WorkerStep(p, "done", WorkerRespond(r, 500, r.thrown), F1_DATA, <<>>)

RefreshPutReturn(p) ==
    /\ pc[p] = "put" /\ req[p].route = "refresh"
    /\ WorkerStep(p, "done", WorkerRespond(req[p], 200, "{success:true}"),
                  KVput(F1_DATA, CACHE_KEY, JSONstringify(req[p].playlistData)), <<>>)

\* GET /health arrives.
HealthStart(p) ==
    /\ Free(p)
    /\ WorkerStep(p, "get", NewWorkerRequest("health"), F1_DATA, <<"call:get">>)

\* { status: 'healthy', hasCachedData: !!cachedData }
HealthGetReturn(p) ==
    /\ pc[p] = "get" /\ req[p].route = "health"
    /\ LET cachedData == KVget(F1_DATA, CACHE_KEY)
           hasCachedData == IF Truthy(cachedData) THEN "true" ELSE "false"
       IN  WorkerStep(p, "done",
                      WorkerRespond([req[p] EXCEPT !.cachedData = cachedData], 200,
                                    "{status:healthy,hasCachedData:" \o hasCachedData \o "}"),
                      F1_DATA, <<>>)

\* The entry outlives its expirationTtl and the namespace drops it.
Expire ==
    /\ Truthy(KVget(F1_DATA, CACHE_KEY))
    /\ F1_DATA' = KVput(F1_DATA, CACHE_KEY, Undefined)
    /\ UNCHANGED <<config, cards, liveCard, pc, req>>

WorkerHandle(p) ==
    \/ ScheduledStart(p)
    \/ ScheduledFetchReturn(p)
    \/ ScheduledPutReturn(p)
    \/ PlaylistStart(p)
    \/ PlaylistGetReturn(p)
    \/ PlaylistFetchReturn(p)
    \/ PlaylistPutReturn(p)
    \/ RefreshStart(p)
    \/ RefreshFetchReturn(p)
    \/ RefreshPutReturn(p)
    \/ HealthStart(p)
    \/ HealthGetReturn(p)

\* The worker serves one event at a time.
WorkerNext == Expire \/ \E p \in SeqProcs : WorkerHandle(p)

WorkerSpec == WorkerInit /\ [][WorkerNext]_vars

\* The handler in slot p takes a step.
WorkerStepOf(p, route) ==
    /\ req'[p].route = route
    /\ pc'[p] # pc[p] \/ req'[p] # req[p]

\* C25: a step of the scheduled handler leaves the cache entry exactly as it was,
\* except the return of its put, which replaces the entry by the data that handler
\* fetched; the handler never throws, and when its upstream fetch failed it ends
\* without having written the cache.
C25_ScheduledRefresh ==
    [][\A p \in Procs :
          WorkerStepOf(p, "scheduled") =>
              /\ ~req'[p].threw
              /\ IF pc[p] = "put"
                 THEN /\ req[p].fetched
                      /\ KVget(F1_DATA', CACHE_KEY) = JSONstringify(req[p].playlistData)
                      /\ pc'[p] = "done"
                 ELSE F1_DATA' = F1_DATA
              /\ (pc[p] = "fetchF1Data" /\ ~req'[p].fetched) =>
                    (pc'[p] = "done" /\ ~Called(req'[p], "put"))
              /\ (pc[p] = "fetchF1Data" /\ req'[p].fetched) => pc'[p] = "put"]_vars

\* A scheduled refresh whose upstream fetch failed has ended while the cache holds
\* an entry.
C25_Witness ==
    \E p \in Procs :
        /\ Done(p) /\ req[p].route = "scheduled" /\ ~req[p].fetched
        /\ Truthy(KVget(F1_DATA, CACHE_KEY))

\* C26: GET /playlist is cache-first. On a hit it answers 200 with exactly the
\* entry, without calling fetchF1Data and without writing the cache. On a miss it
\* calls fetchF1Data; when that returns data it stores the data and answers 200
\* with the same text it stored; when that throws it answers 500 and the cache
\* stays empty.
C26_CacheFirst ==
    [][\A p \in Procs :
          WorkerStepOf(p, "playlist") =>
              LET entry == KVget(F1_DATA, CACHE_KEY)
                  r == req'[p]
              IN  /\ pc[p] \in {"idle", "done"} => (pc'[p] = "get" /\ F1_DATA' = F1_DATA)
                  /\ (pc[p] = "get" /\ Truthy(entry)) =>
                        /\ pc'[p] = "done"
                        /\ r.response = [status |-> 200, body |-> entry]
                        /\ ~Called(r, "fetchF1Data") /\ ~Called(r, "put")
                        /\ F1_DATA' = F1_DATA
                  /\ (pc[p] = "get" /\ ~Truthy(entry)) =>
                        /\ pc'[p] = "fetchF1Data"
                        /\ F1_DATA' = F1_DATA
                  /\ (pc[p] = "fetchF1Data" /\ ~r.fetched) =>
                        /\ pc'[p] = "done"
                        /\ r.response.status = 500
                        /\ ~Called(r, "put")
                        /\ F1_DATA' = F1_DATA
                        /\ ~Truthy(KVget(F1_DATA', CACHE_KEY))
                  /\ (pc[p] = "fetchF1Data" /\ r.fetched) =>
                        (pc'[p] = "put" /\ F1_DATA' = F1_DATA)
                  /\ pc[p] = "put" =>
                        /\ pc'[p] = "done"
                        /\ r.response.status = 200
                        /\ r.response.body = KVget(F1_DATA', CACHE_KEY)
                        /\ r.response.body = JSONstringify(req[p].playlistData)]_vars

\* A hit has been answered after the entry was written by an earlier event.
C26_Witness ==
    \E p \in Procs :
        /\ Done(p) /\ req[p].route = "playlist"
        /\ Truthy(req[p].cachedData)
        /\ req[p].response = [status |-> 200, body |-> KVget(F1_DATA, CACHE_KEY)]

-----------------------------------------------------------------------------
(* Concurrent refreshes *)

\* The requests of the concurrent runs: well-configured refreshes that carry the
\* right secret and a token the backend accepts, whose payload has sessions and
\* weather but no flag and no fingerprint, whose cover upload yields nothing and
\* whose account has no device.
RaceRequest(r) ==
    /\ r.route \in {"none", "manual", "webhook"}
    /\ r.providedSecret = r.webhookSecret
    /\ r.response.status \notin {400, 401}
    /\ ~r.response.configError
    /\ ~r.countryFlag
    /\ r.sessions # EmptyList
    /\ Truthy(r.sessions) => Truthy(r.weather)
    /\ r.newDataHash = Undefined
    /\ r.coverImageUrl = Undefined
    /\ r.devices = <<>>

\* The user is logged in, without a refresh token, and no card is stored.
RaceInit ==
    /\ F1_DATA = EmptyNamespace
    /\ config = storeTokens(Open(EmptyStore), "A0", Undefined).data
    /\ cards = 0
    /\ liveCard = FALSE
    /\ pc = [p \in Procs |-> "idle"]
    /\ req = [p \in Procs |-> Idle]

RaceHandle(p) ==
    \/ ManualStart(p)
    \/ ManualWorkerReturn(p)
    \/ ManualIconReturn(p)
    \/ ManualCoverReturn(p)
    \/ ManualReconcileReturn(p)
    \/ ManualDeployReturn(p)
    \/ WebhookStart(p)
    \/ WebhookWorkerReturn(p)
    \/ WebhookIconReturn(p)
    \/ WebhookCoverReturn(p)
    \/ WebhookReconcileReturn(p)
    \/ WebhookDeployReturn(p)

\* Requests are served concurrently: any handler may take the next step.
RaceNext == (\E p \in Procs : RaceHandle(p)) /\ (\A p \in Procs : RaceRequest(req'[p]))

RaceSpec == RaceInit /\ [][RaceNext]_vars

\* createOrUpdateTTSPlaylist returns to the refresh in slot p.
RefreshReconcileStep(p) ==
    /\ req[p].route \in RefreshRoutes
    /\ pc[p] = "reconcile" /\ pc'[p] # "reconcile"

\* C27: the cardId a refresh passes to createOrUpdateTTSPlaylist is the one it read
\* before the call, so a refresh that read an absent cardId and is served creates a
\* card whatever was stored since, and the cardId it got replaces the stored one:
\* two interleaved refreshes starting without a card each create one, and only the
\* cardId of the one that returned last is stored.
C27_ReadThenWriteRace ==
    [][\A p \in Procs :
          (RefreshReconcileStep(p) /\ Truthy(req'[p].yotoResult.cardId)) =>
              /\ getStoredCardId(config') = req'[p].yotoResult.cardId
              /\ ~Truthy(req[p].existingCardId) =>
                    /\ ~req'[p].yotoResult.isUpdate
                    /\ cards' = cards + 1
                    /\ req'[p].yotoResult.cardId = CardIdOf(cards')]_vars

\* Both refreshes read an absent cardId, each created a card, and one cardId is
\* stored.
C27_Witness ==
    \E p \in Procs, q \in Procs :
        /\ Done(p) /\ Done(q)
        /\ req[p].route = "manual" /\ req[q].route = "webhook"
        /\ ~Truthy(req[p].existingCardId) /\ ~Truthy(req[q].existingCardId)
        /\ req[p].response.success /\ req[q].response.success
        /\ req[p].response.cardId = CardIdOf(1) /\ req[q].response.cardId = CardIdOf(2)
        /\ cards = 2
        /\ getStoredCardId(config) = CardIdOf(2)

-----------------------------------------------------------------------------
(* Webhook token handling *)

\* The webhook in slot p has passed the secret check and found an access token.
Authenticated(r) == r.route = "webhook" /\ r.tokenRead /\ Truthy(r.accessToken)

\* It found a refresh token and the exchange has returned.
Exchanged(p) ==
    /\ Authenticated(req[p])
    /\ Truthy(req[p].tokens.refreshToken)
    /\ pc[p] # "tokenRefresh"

\* C28: a webhook whose token refresh failed while a refresh token is stored answers
\* 401 and has done nothing but the exchange (no worker fetch, no upload, no store
\* write); a webhook that found no refresh token makes no exchange and goes on with
\* the stored access token; a webhook whose refresh succeeded holds the new access
\* token, which is also the stored one, at every later step.
C28_WebhookTokenHandling ==
    \A p \in Procs :
        LET r == req[p]
        IN  /\ (Exchanged(p) /\ ~Truthy(r.refreshedToken)) =>
                  /\ Done(p)
                  /\ r.response.status = 401
                  /\ r.log = <<"call:tokenRefresh">>
            /\ (Authenticated(r) /\ ~Truthy(r.tokens.refreshToken)) =>
                  /\ ~Called(r, "tokenRefresh")
                  /\ r.accessToken = getAccessToken(config)
                  /\ r.response.status # 401
                  /\ Done(p) => (Called(r, "fetchWorker") \/ r.response.configError)
            /\ (Exchanged(p) /\ Truthy(r.refreshedToken)) =>
                  /\ r.accessToken = r.refreshedToken
                  /\ r.accessToken = getAccessToken(config)
                  /\ Done(p) => (Called(r, "fetchWorker") \/ r.response.configError)

\* A webhook whose refresh failed has answered while a card is stored.
C28_Witness ==
    \E p \in Procs :
        /\ Done(p) /\ Exchanged(p) /\ ~Truthy(req[p].refreshedToken)
        /\ Truthy(getStoredCardId(config))

-----------------------------------------------------------------------------
(* refreshAccessToken *)

NoRefresh ==
    [route |-> "none", before |-> EmptyStore, outcome |-> NoExchange,
     token |-> Undefined, after |-> EmptyStore]

TokenInit ==
    /\ F1_DATA = EmptyNamespace
    /\ config = EmptyStore
    /\ cards = 0
    /\ liveCard = FALSE
    /\ pc = [p \in Procs |-> "idle"]
    /\ req = [p \in Procs |-> NoRefresh]

\* The OAuth callback stores tokens, with or without a refresh token.
TokenLogin(p) ==
    /\ \E refreshToken \in {Undefined, "R0"} :
          config' = storeTokens(Open(config), "A0", refreshToken).data
    /\ UNCHANGED <<cards, liveCard, pc, req, F1_DATA>>

\* Logout clears the tokens.
TokenLogout(p) ==
    /\ config' = clearTokens(Open(config)).data
    /\ UNCHANGED <<cards, liveCard, pc, req, F1_DATA>>

\* One call of refreshAccessToken: the exchange is made only when a refresh token
\* is stored. `before` and `after` record the store around the call.
RefreshTokens(p) ==
    /\ \E outcome \in RefreshOutcomes \cup {NoExchange} :
          /\ (outcome = NoExchange) <=> ~Truthy(getStoredTokens(config).refreshToken)
          /\ LET refreshed == refreshAccessToken(Open(config), getStoredTokens(config), outcome)
             IN  /\ config' = refreshed.store.data
                 /\ req' = [req EXCEPT ![p] =
                               [route |-> "refresh", before |-> config, outcome |-> outcome,
                                token |-> refreshed.token, after |-> refreshed.store.data]]
    /\ pc' = [pc EXCEPT ![p] = "done"]
    /\ UNCHANGED <<cards, liveCard, F1_DATA>>

TokenNext ==
    \E p \in SeqProcs :
        TokenLogin(p) \/ TokenLogout(p) \/ RewriteIdentity(p) \/ RefreshTokens(p)

TokenSpec == TokenInit /\ [][TokenNext]_vars

\* The call returned null.
ReturnedNull(r) == ~Truthy(r.token)

\* C29: refreshAccessToken returns null and leaves the store as it was when no
\* refresh token is stored, when the provider answers non-OK and when the exchange
\* throws; otherwise it returns the new access token and stores it together with
\* the new refresh token if one was returned and the previous refresh token if not,
\* changing nothing else; a stored refresh token is never lost by a refresh.
C29_RefreshAccessToken ==
    \A p \in Procs :
        LET r == req[p]
            before == getStoredTokens(r.before)
            after == getStoredTokens(r.after)
        IN  r.route = "refresh" =>
               /\ Truthy(before.refreshToken) => Truthy(after.refreshToken)
               /\ \A key \in DOMAIN EmptyStore \ {"tokens"} : r.after[key] = r.before[key]
               /\ IF ~Truthy(before.refreshToken) \/ r.outcome \in {"failed", "threw"}
                  THEN ReturnedNull(r) /\ r.after = r.before
                  ELSE /\ ~ReturnedNull(r)
                       /\ r.token = TokenAnswer(r.outcome).access_token
                       /\ after.accessToken = r.token
                       /\ after.refreshToken =
                             IF Truthy(TokenAnswer(r.outcome).refresh_token)
                             THEN TokenAnswer(r.outcome).refresh_token
                             ELSE before.refreshToken

\* A refresh whose answer carried no refresh token has returned while a card and a
\* title are stored.
C29_Witness ==
    \E p \in Procs :
        /\ req[p].route = "refresh" /\ req[p].outcome = "kept"
        /\ ~ReturnedNull(req[p])
        /\ Truthy(getStoredCardId(req[p].before))
        /\ Truthy(getStoredTokens(req[p].after).refreshToken)

-----------------------------------------------------------------------------
(* Logout *)

\* The handler in slot p starts a request of the given routes.
StartOf(p, routes) ==
    /\ Free(p)
    /\ req'[p].route \in routes
    /\ pc'[p] # pc[p] \/ req'[p] # req[p]

\* The step leaves the store as it is and ends the request without any call.
RejectedAtOnce(p) == pc'[p] = "done" /\ req'[p].log = <<>> /\ config' = config

\* Logout: tokens, f1CardId and f1MyoCardId are removed, title and data hash stay.
LogoutEffect(p) ==
    StartOf(p, {"logout"}) =>
        /\ getStoredTokens(config') = NoTokens
        /\ getAccessToken(config') = Undefined
        /\ getStoredCardId(config') = Undefined
        /\ config'.f1MyoCardId = Undefined
        /\ getStoredPlaylistTitle(config') = getStoredPlaylistTitle(config)
        /\ getStoredDataHash(config') = getStoredDataHash(config)

\* A request of one of the routes that arrives while no access token is stored is
\* answered 401 with needsAuth.
NeedsAuthWithoutToken(p, routes) ==
    (StartOf(p, routes) /\ ~Truthy(getAccessToken(config))) =>
        /\ RejectedAtOnce(p)
        /\ req'[p].response.status = 401
        /\ req'[p].response.needsAuth

-----------------------------------------------------------------------------
(* Data hash and cardId *)

\* C31: in every reachable state a stored data hash implies a stored cardId, and
\* the webhook never answers skipped = true while no card is stored.
C31_HashImpliesCard ==
    /\ Truthy(getStoredDataHash(config)) => Truthy(getStoredCardId(config))
    /\ \A p \in Procs :
          (Done(p) /\ req[p].route = "webhook" /\ req[p].response.skipped)
              => Truthy(getStoredCardId(config))

-----------------------------------------------------------------------------
(* Deployment guard of the refresh routes *)

\* C32: in the manual refresh and the webhook deployToAllDevices is invoked only
\* when the create-or-update result has a cardId and a status other than 'failed',
\* and with exactly that cardId; when deployment throws, the response is still
\* success with deviceDeployment null and the cardId and title stored stay stored.
C32_DeployGuard ==
    \A p \in Procs :
        LET r == req[p]
        IN  r.route \in RefreshRoutes =>
              /\ Called(r, "deployToAllDevices") =>
                    /\ Truthy(r.yotoResult.cardId)
                    /\ r.yotoResult.status # "failed"
                    /\ r.deployCardId = r.yotoResult.cardId
              /\ (Done(p) /\ r.listing = "threw") =>
                    /\ r.response.status = 200
                    /\ r.response.success
                    /\ r.response.deviceDeployment = NullDeployment
                    /\ r.response.cardId = r.yotoResult.cardId
                    /\ Wrote(r, "f1CardId") /\ Wrote(r, "f1PlaylistTitle")
                    /\ getStoredCardId(config) = r.yotoResult.cardId
                    /\ getStoredPlaylistTitle(config) = r.title

\* A webhook refresh whose deployment threw has answered success and its card is
\* stored.
C32_Witness ==
    \E p \in Procs :
        /\ Done(p) /\ req[p].route = "webhook"
        /\ req[p].listing = "threw"
        /\ req[p].response.success
        /\ req[p].response.deviceDeployment = NullDeployment
        /\ Truthy(getStoredCardId(config))
        /\ getStoredCardId(config) = req[p].deployCardId

-----------------------------------------------------------------------------
(* Audio upload path *)

\* The position of the first call of `name` in the log of r, 0 when there is none.
FirstCall(r, name) ==
    IF Called(r, name)
    THEN CHOOSE i \in 1..Len(r.log) :
            /\ r.log[i] = "call:" \o name
            /\ \A j \in 1..(i - 1) : r.log[j] # "call:" \o name
    ELSE 0

\* C33: createAudioCard is invoked only after requestAudioUploadUrl, uploadAudioFile
\* and waitForTranscoding have completed successfully, in that order; when one of them
\* fails no card is created and f1MyoCardId is unchanged; f1MyoCardId is written only
\* when a card was created without an existing id; the upload path never reads or
\* writes f1CardId.
C33_UploadOrdering ==
    \A p \in Procs :
        LET r == req[p] IN
        r.route = "upload" =>
            /\ Called(r, "createAudioCard") =>
                  /\ 0 < FirstCall(r, "requestAudioUploadUrl")
                  /\ FirstCall(r, "requestAudioUploadUrl") < FirstCall(r, "uploadAudioFile")
                  /\ FirstCall(r, "uploadAudioFile") < FirstCall(r, "waitForTranscoding")
                  /\ FirstCall(r, "waitForTranscoding") < FirstCall(r, "createAudioCard")
                  /\ r.job = "ready"
            /\ r.job \in {"failed", "timed_out"} =>
                  /\ Done(p) /\ ~r.response.success
                  /\ ~Called(r, "createAudioCard")
                  /\ r.response.cardId = Undefined
                  /\ ~Wrote(r, "f1MyoCardId")
            /\ Wrote(r, "f1MyoCardId") =>
                  /\ Done(p) /\ r.response.success
                  /\ ~Truthy(r.existingCardId)
                  /\ Truthy(r.response.cardId)
                  /\ config.f1MyoCardId = r.response.cardId
            /\ ~Wrote(r, "f1CardId")
            /\ r.existingCardId \in {Undefined, config.f1MyoCardId}
            /\ r.response.cardId # TtsCardId

\* While a playlist card is stored, an upload that asked to update the existing
\* card found no MYO card and has created and stored one.
C33_Witness ==
    \E p \in Procs :
        /\ Done(p) /\ req[p].route = "upload"
        /\ req[p].updateExisting
        /\ Wrote(req[p], "f1MyoCardId")
        /\ getStoredCardId(config) = TtsCardId
        /\ config.f1MyoCardId = req[p].response.cardId

-----------------------------------------------------------------------------
(* send-to-yoto input handling *)

\* C34: an authenticated send-to-yoto request whose chapters are missing, not a list
\* or empty is answered 400 with no cover upload, no create-or-update call and no
\* store write; with updateExisting = false the create-or-update call receives no
\* cardId whatever cardId is stored, and the cardId of the result replaces the
\* stored one.
C34_SendInputHandling ==
    \A p \in Procs :
        LET r == req[p] IN
        r.route = "send" =>
            /\ (Truthy(r.accessToken) /\ r.chapters \in {Undefined, "not-a-list", EmptyList})
                  => /\ Done(p)
                     /\ r.response.status = 400
                     /\ ~r.response.success
                     /\ r.log = <<>>
            /\ r.response.status = 400 => r.chapters # "[chapter]"
            /\ (Called(r, "createOrUpdateTTSPlaylist") /\ ~r.updateExisting)
                  => /\ r.existingCardId = Undefined
                     /\ Truthy(r.yotoResult.cardId)
                           => /\ ~r.yotoResult.isUpdate
                              /\ Wrote(r, "f1CardId")
                              /\ getStoredCardId(config) = r.yotoResult.cardId

\* After a first card had been created, a request with updateExisting = false has
\* passed no cardId, a second card was created and its id is the stored one.
C34_Witness ==
    \E p \in Procs :
        /\ Done(p) /\ req[p].route = "send"
        /\ ~req[p].updateExisting
        /\ req[p].existingCardId = Undefined
        /\ req[p].yotoResult.cardId = CardIdOf(2)
        /\ getStoredCardId(config) = CardIdOf(2)
        /\ cards = 2

-----------------------------------------------------------------------------
(* Concurrent refresh and send-to-yoto requests *)

\* The requests of these concurrent runs: the refreshes of the concurrent refresh
\* runs and authenticated send-to-yoto requests that carry chapters and a title,
\* whose cover upload yields nothing and whose account has no device; no call of a
\* request throws and no update fails.
PairRequest(r) ==
    /\ r.response.status \in {0, 200}
    /\ r.listing # "threw"
    /\ r.yotoResult.status # "failed"
    /\ IF r.route = "send"
       THEN /\ r.title \in {Undefined, "My F1"}
            /\ r.coverImageUrl = Undefined
            /\ r.devices = <<>>
       ELSE RaceRequest(r)

PairHandle(p) ==
    \/ RaceHandle(p)
    \/ SendStart(p)
    \/ SendCoverReturn(p)
    \/ SendReconcileReturn(p)
    \/ SendDeployReturn(p)

\* Requests are served concurrently: any handler may take the next step.
PairNext == (\E p \in Procs : PairHandle(p)) /\ (\A p \in Procs : PairRequest(req'[p]))

PairSpec == RaceInit /\ [][PairNext]_vars

\* The writes the running handler in slot p makes in this step, in order.
StepWrites(p) ==
    IF pc[p] \in {"idle", "done"} \/ req'[p] = req[p] THEN <<>>
    ELSE SelectSeq(StepLog(p), IsCardOrTitleWrite)

\* C35: under any interleaving of concurrent refresh and send-to-yoto requests a
\* request that writes the cardId or the title writes both in one step, the title
\* right after the cardId, they are its own result and title, and nothing else
\* changes either of them: the stored cardId and title are always the pair one
\* request wrote.
C35_PairedWrites ==
    [][/\ \A p \in Procs :
             /\ StepWrites(p) \in {<<>>, <<"write:f1CardId", "write:f1PlaylistTitle">>}
             /\ StepWrites(p) # <<>> =>
                   /\ getStoredCardId(config') = req'[p].yotoResult.cardId
                   /\ getStoredPlaylistTitle(config') = req'[p].title
                   /\ \A q \in Procs \ {p} : req'[q] = req[q]
       /\ (\/ getStoredCardId(config') # getStoredCardId(config)
           \/ getStoredPlaylistTitle(config') # getStoredPlaylistTitle(config))
             => \E p \in Procs : StepWrites(p) # <<>>]_vars

\* A manual refresh and a send-to-yoto request overlapped, each created a card,
\* and the card and the title stored are those of the send-to-yoto request, which
\* returned last.
C35_Witness ==
    \E p \in Procs, q \in Procs :
        /\ Done(p) /\ Done(q)
        /\ req[p].route = "manual" /\ req[q].route = "send"
        /\ req[p].response.cardId = CardIdOf(1) /\ req[q].response.cardId = CardIdOf(2)
        /\ ~Truthy(req[q].existingCardId)
        /\ req[p].title # req[q].title
        /\ getStoredCardId(config) = CardIdOf(2)
        /\ getStoredPlaylistTitle(config) = req[q].title

-----------------------------------------------------------------------------
(* Job status route *)

\* What checkJobStatus throws when the backend's answer is not OK.
JobStatusError == [status |-> 0, message |-> "Failed to check job status"]

\* Mutant: the route asks the backend before it looks for a token.
JobStatusStartUnguarded(p) ==
    /\ Free(p)
    /\ Step(p, "checkJob",
            [NewRequest("status") EXCEPT !.accessToken = getAccessToken(config)],
            Open(config), <<"call:checkJobStatus">>)
    /\ UNCHANGED <<cards, liveCard>>

\* GET /api/job-status up to the call of checkJobStatus.
JobStatusStart(p) ==
    /\ Free(p)
    /\ LET r == NewRequest("status")
           accessToken == getAccessToken(config)
       IN  IF ~Truthy(accessToken)
           THEN Step(p, "done", Respond(r, 401, needsAuthFields), Open(config), <<>>)
           ELSE \E jobId \in {Undefined, "job1"} :
                   IF ~Truthy(jobId)
                   THEN Step(p, "done",
                             Respond([r EXCEPT !.accessToken = accessToken], 400, noFields),
                             Open(config), <<>>)
                   ELSE Step(p, "checkJob", [r EXCEPT !.accessToken = accessToken],
                             Open(config), <<"call:checkJobStatus">>)
    /\ UNCHANGED <<cards, liveCard>>

\* checkJobStatus returns the job, or throws and the catch block answers.
JobStatusReturn(p) ==
    /\ pc[p] = "checkJob" /\ req[p].route = "status"
    /\ \/ Step(p, "done", Respond(req[p], 200, [success |-> TRUE]), Open(config), <<>>)
       \/ \E error \in {JobStatusError, AuthError} :
             Step(p, "done",
                  IF isAuthError(error)
                  THEN Respond(Caught(req[p], error), 401, needsAuthFields)
                  ELSE Respond(Caught(req[p], error), 500, noFields),
                  Open(config), <<>>)
    /\ UNCHANGED <<cards, liveCard>>

-----------------------------------------------------------------------------
(* The routes that require a login *)

AuthHandle(p) ==
    \/ Login(p)
    \/ Logout(p)
    \/ ManualStart(p)
    \/ ManualWorkerReturn(p)
    \/ ManualIconReturn(p)
    \/ ManualFlagReturn(p)
    \/ ManualCoverReturn(p)
    \/ ManualReconcileReturn(p)
    \/ ManualDeployReturn(p)
    \/ SendStart(p)
    \/ SendCoverReturn(p)
    \/ SendReconcileReturn(p)
    \/ SendDeployReturn(p)
    \/ UploadStart(p)
    \/ UploadUrlReturn(p)
    \/ UploadFileReturn(p)
    \/ UploadPollReturn(p)
    \/ UploadCoverReturn(p)
    \/ UploadCardReturn(p)
    \/ JobStatusStart(p)
    \/ JobStatusReturn(p)

\* Requests are served one at a time.
AuthNext == \E p \in SeqProcs : AuthHandle(p)

AuthSpec == Init /\ [][AuthNext]_vars

\* C36: when no access token is stored, the manual refresh, send-to-yoto, the audio
\* upload and the job-status route answer 401 with needsAuth = true before any
\* network call and without any write to the store.
C36_UnauthenticatedRejectedFirst ==
    [][\A p \in Procs :
          NeedsAuthWithoutToken(p, {"manual", "send", "upload", "status"})]_vars

\* After a logout a job-status request has been answered 401 with needsAuth, with no
\* call made, while the title of the card created before the logout is still stored.
C36_Witness ==
    \E p \in Procs :
        /\ Done(p) /\ req[p].route = "status"
        /\ req[p].response.status = 401 /\ req[p].response.needsAuth
        /\ req[p].log = <<>>
        /\ getStoredTokens(config) = NoTokens
        /\ Truthy(getStoredPlaylistTitle(config))

-----------------------------------------------------------------------------
(* Worker data fetch *)

\* The race lookup of a run with these answers fails.
RaceLookupFails(upstream) ==
    \/ upstream.meetings \in {"not-ok", "threw"}
    \/ upstream.meetings = EmptyList /\ upstream.nextYear \in {"not-ok", "threw", EmptyList}

\* C37: in fetchF1Data a failure of the race lookup propagates, with 'No upcoming
\* races found' when the current-year and the next-year lookups are both empty, and
\* the handler caches nothing; a failure of the sessions lookup degrades to an empty
\* session list and a failure of the weather lookup to null; weather is requested
\* only when the session list is non-empty and its first session has a session key.
C37_FetchFailureIsolation ==
    \A p \in Procs :
        LET r == req[p]
            u == r.upstream
        IN  (r.route \in {"scheduled", "playlist", "refresh"} /\ u # NoUpstream) =>
              /\ r.fetched <=> ~RaceLookupFails(u)
              /\ RaceLookupFails(u) =>
                    /\ Done(p)
                    /\ Truthy(r.thrown)
                    /\ r.playlistData = Undefined
                    /\ ~Called(r, "sessions") /\ ~Called(r, "weather")
                    /\ ~Called(r, "put")
              /\ (u.meetings = EmptyList /\ u.nextYear = EmptyList)
                    => r.thrown = "No upcoming races found"
              /\ r.fetched =>
                    /\ r.thrown = Undefined
                    /\ r.playlistData.race =
                          IF u.meetings = EmptyList THEN u.nextYear ELSE u.meetings
                    /\ Called(r, "sessions")
                    /\ u.sessions \in {"not-ok", "threw", EmptyList}
                          => r.playlistData.sessions = EmptyList
                    /\ u.sessions \notin {"not-ok", "threw", EmptyList}
                          => r.playlistData.sessions = u.sessions
                    /\ Called(r, "weather") <=> u.sessions = "sessions"
                    /\ r.playlistData.weather =
                          IF u.sessions = "sessions" /\ u.weather = "weather"
                          THEN "weather" ELSE Undefined

\* A scheduled refresh whose sessions lookup threw has cached playlist data with an
\* empty session list and no weather.
C37_Witness ==
    \E p \in Procs :
        /\ Done(p) /\ req[p].route = "scheduled"
        /\ req[p].upstream.sessions = "threw"
        /\ req[p].fetched
        /\ req[p].playlistData.sessions = EmptyList
        /\ req[p].playlistData.weather = Undefined
        /\ KVget(F1_DATA, CACHE_KEY) = JSONstringify(req[p].playlistData)

-----------------------------------------------------------------------------
(* Worker POST /refresh and GET /health *)

\* C38: POST /refresh overwrites the cache entry with the data it fetched and
\* answers success when the upstream fetch succeeds, and answers 500 and leaves the
\* entry as it was when the fetch fails; GET /health never modifies the cache and
\* reports hasCachedData = true exactly when an entry is cached.
C38_RefreshAndHealth ==
    [][\A p \in Procs :
          LET entry == KVget(F1_DATA, CACHE_KEY)
              r == req'[p]
          IN  /\ WorkerStepOf(p, "refresh") =>
                    /\ pc[p] \in {"idle", "done"} =>
                          (pc'[p] = "fetchF1Data" /\ F1_DATA' = F1_DATA)
                    /\ (pc[p] = "fetchF1Data" /\ r.fetched) =>
                          (pc'[p] = "put" /\ F1_DATA' = F1_DATA)
                    /\ (pc[p] = "fetchF1Data" /\ ~r.fetched) =>
                          /\ pc'[p] = "done"
                          /\ r.response.status = 500
                          /\ ~Called(r, "put")
                          /\ F1_DATA' = F1_DATA
                    /\ pc[p] = "put" =>
                          /\ pc'[p] = "done"
                          /\ r.response = [status |-> 200, body |-> "{success:true}"]
                          /\ KVget(F1_DATA', CACHE_KEY) = JSONstringify(req[p].playlistData)
              /\ WorkerStepOf(p, "health") =>
                    /\ F1_DATA' = F1_DATA
                    /\ ~Called(r, "put") /\ ~Called(r, "fetchF1Data")
                    /\ pc[p] = "get" =>
                          /\ pc'[p] = "done"
                          /\ r.response.status = 200
                          /\ r.response.body =
                                IF entry # Undefined
                                THEN "{status:healthy,hasCachedData:true}"
                                ELSE "{status:healthy,hasCachedData:false}"]_vars

\* POST /refresh has stored the data it fetched and answered success.
C38_Witness ==
    \E p \in Procs :
        /\ Done(p) /\ req[p].route = "refresh"
        /\ req[p].response.status = 200
        /\ req[p].playlistData.lastUpdated = "06:01"
        /\ KVget(F1_DATA, CACHE_KEY) = JSONstringify(req[p].playlistData)

====
